---- MODULE Spec2Model ----
(***************************************************************************)
(* Model of the dynamic schema engine of pds: the file-based SchemaCache   *)
(* (src/pds/schema/cache.py), the APIClient (src/pds/schema/api) and the   *)
(* DynamicSchemaGenerator (src/pds/schema/generator.py).                   *)
(*                                                                         *)
(* The cache directory is modelled as a directory table (path -> inode)    *)
(* plus an inode table (content, mtime), so that open("w") truncation,     *)
(* positional writes, rename-over and unlink behave as on a POSIX file     *)
(* system.  A JSON document is a sequence of tokens: one token per         *)
(* top-level key, closed by the End token.  Coroutines are tasks with a    *)
(* program counter; a step runs from one await point to the next.          *)
(***************************************************************************)
EXTENDS Integers, Sequences, FiniteSets, TLC

VARIABLES now, dir, inodes, locks, task, ops, crashes, faults

vars == <<now, dir, inodes, locks, task, ops, crashes, faults>>

(***************************************************************************)
(* Bounds of the model.                                                    *)
(***************************************************************************)
NumTasks == 2
MaxOps == 2
MaxCrashes == 1
MaxFaults == 1
MaxTicks == 2
TickHours == 4
ChunkTokens == 2

Tasks == 1..NumTasks
MaxTime == MaxTicks * TickHours

(***************************************************************************)
(* Program constants.                                                      *)
(***************************************************************************)
\* cache.py:38, the default of get_cached_resources(ttl_hours=6)
DefaultTtlHours == 6

\* api/base.py:61-63, APIClient.cache_ttl_hours
CacheTtlHours == 6

Providers == {"digitalocean", "hetzner"}
TtlInputs == {TickHours, DefaultTtlHours}

(***************************************************************************)
(* ProviderResources (api/base.py).  An optional list (None or a list) is  *)
(* a sequence holding zero or one list.                                    *)
(***************************************************************************)
None == <<>>
Some(l) == <<l>>

ResourceKeys ==
    {"regions", "instance_types", "database_types", "kubernetes_versions",
     "storage_types"}

ProviderResources(regions, instance_types, database_types, kubernetes_versions, storage_types) ==
    [regions |-> regions, instance_types |-> instance_types,
     database_types |-> database_types,
     kubernetes_versions |-> kubernetes_versions,
     storage_types |-> storage_types]

EmptyDict == [k \in {} |-> <<>>]

\* The value the JSON document holds under key k: a dict is a function on
\* its keys.
to_dict(r) ==
    [k \in ResourceKeys |->
        CASE k = "regions" -> r.regions
          [] k = "instance_types" -> r.instance_types
          [] k = "database_types" -> r.database_types
          [] k = "kubernetes_versions" -> r.kubernetes_versions
          [] OTHER -> r.storage_types]

\* data.get(key, default)
DictGet(data, key, default) == IF key \in DOMAIN data THEN data[key] ELSE default

\* Mutant of from_dict: storage_types is not read back.
from_dict_no_storage(data) ==
    ProviderResources(DictGet(data, "regions", <<>>),
                      DictGet(data, "instance_types", EmptyDict),
                      DictGet(data, "database_types", EmptyDict),
                      DictGet(data, "kubernetes_versions", None),
                      None)

from_dict(data) ==
    ProviderResources(DictGet(data, "regions", <<>>),
                      DictGet(data, "instance_types", EmptyDict),
                      DictGet(data, "database_types", EmptyDict),
                      DictGet(data, "kubernetes_versions", None),
                      DictGet(data, "storage_types", None))

\* Two live snapshots a fetch can produce (inputs of cache_resources).
LiveA ==
    ProviderResources(<<"ams3", "nyc1">>,
                      ("ams3" :> <<"s-1vcpu-1gb">>)
                        @@ ("nyc1" :> <<"s-1vcpu-1gb", "s-2vcpu-2gb">>)
                        @@ ("*" :> <<"s-1vcpu-1gb", "s-2vcpu-2gb">>),
                      ("postgres" :> <<"16", "15">>),
                      Some(<<"1.30">>), None)

LiveB ==
    ProviderResources(<<"fra1">>,
                      ("fra1" :> <<"s-4vcpu-8gb">>) @@ ("*" :> <<"s-4vcpu-8gb">>),
                      ("mysql" :> <<"8.0">>) @@ ("postgres" :> <<"16">>),
                      None, None)

ResourceInputs == {LiveA, LiveB}

(***************************************************************************)
(* The DigitalOcean client: api/digitalocean.py.                           *)
(***************************************************************************)
\* Python's order of the size slugs that occur: sorted() follows this list.
SlugOrder ==
    <<"s-1vcpu-1gb", "s-1vcpu-2gb", "s-2vcpu-2gb", "s-2vcpu-4gb", "s-4vcpu-8gb",
      "s-6vcpu-16gb", "standard">>

Rank(slug) == CHOOSE i \in 1..Len(SlugOrder) : SlugOrder[i] = slug

RECURSIVE Insert(_, _)
Insert(slug, sorted_) ==
    IF sorted_ = <<>> THEN <<slug>>
    ELSE IF Rank(slug) <= Rank(Head(sorted_)) THEN <<slug>> \o sorted_
    ELSE <<Head(sorted_)>> \o Insert(slug, Tail(sorted_))

RECURSIVE sorted(_)
\* sorted(list) of size slugs
sorted(list) == IF list = <<>> THEN <<>> ELSE Insert(Head(list), sorted(Tail(list)))

RECURSIVE ListOfSet(_)
\* list(set): the elements in some order
ListOfSet(set) ==
    IF set = {} THEN <<>>
    ELSE LET x == CHOOSE y \in set : TRUE IN <<x>> \o ListOfSet(set \ {x})

Elems(list) == {list[i] : i \in 1..Len(list)}

RECURSIVE SlugsIn(_, _)
\* digitalocean.py:128-132: the slugs of the sizes that list the region
SlugsIn(region, sizes) ==
    IF sizes = <<>> THEN <<>>
    ELSE (IF region \in Elems(Head(sizes).regions) THEN <<Head(sizes).slug>> ELSE <<>>)
         \o SlugsIn(region, Tail(sizes))

\* digitalocean.py:121-140
_group_sizes_by_region(regions, sizes) ==
    LET keyed == {r \in Elems(regions) : SlugsIn(r, sizes) # <<>>}
        all_sizes == ListOfSet({sizes[i].slug : i \in 1..Len(sizes)})
    IN  [r \in keyed \cup {"*"} |->
            IF r = "*" THEN sorted(all_sizes) ELSE sorted(SlugsIn(r, sizes))]

\* digitalocean.py:191-226
get_static_fallback ==
    LET static_regions ==
            <<"nyc1", "nyc3", "ams3", "sgp1", "lon1", "fra1", "tor1", "blr1", "sfo3">>
        static_sizes ==
            <<"s-1vcpu-1gb", "s-1vcpu-2gb", "s-2vcpu-2gb", "s-2vcpu-4gb",
              "s-4vcpu-8gb", "s-6vcpu-16gb">>
    IN  ProviderResources(
            static_regions,
            [r \in Elems(static_regions) \cup {"*"} |-> static_sizes],
            ("postgres" :> <<"16", "15", "14", "13", "12">>)
              @@ ("mysql" :> <<"8.0">>) @@ ("redis" :> <<"7", "6">>),
            Some(<<"1.30", "1.29", "1.28">>), None)

\* What the provider's API answers when a request succeeds: the results of
\* _fetch_regions, _fetch_sizes, _fetch_database_options and
\* _fetch_kubernetes_versions (digitalocean.py:93-119,142-159,169-185).
LiveRegions == <<"ams3", "nyc1">>
LiveSizes ==
    << [slug |-> "s-2vcpu-2gb", regions |-> <<"nyc1">>],
       [slug |-> "s-1vcpu-1gb", regions |-> <<"nyc1", "ams3">>] >>
LiveDatabases == ("postgres" :> <<"16", "15">>)
LiveKubernetes == <<"1.30">>

Categories == {"regions", "sizes", "databases", "kubernetes"}

\* Mutant of fetch_resources: one failed category makes the whole result the
\* static fallback.
fetch_all_or_nothing(token, failed) ==
    IF ~token \/ failed # {} THEN get_static_fallback
    ELSE ProviderResources(LiveRegions, _group_sizes_by_region(LiveRegions, LiveSizes),
                           LiveDatabases, Some(LiveKubernetes), None)

\* digitalocean.py:35-91: token tells whether DIGITALOCEAN_TOKEN is set,
\* failed names the categories whose request fails.
fetch_resources(token, failed) ==
    IF ~token THEN get_static_fallback
    ELSE
    LET fallback == get_static_fallback
        regions_data == IF "regions" \in failed THEN fallback.regions ELSE LiveRegions
        sizes_data == IF "sizes" \in failed THEN <<>> ELSE LiveSizes
        \* digitalocean.py:161-167: the request's own except returns the
        \* static engines
        db_data == IF "databases" \in failed
                   THEN ("postgres" :> <<"16", "15", "14", "13", "12">>)
                          @@ ("mysql" :> <<"8.0">>) @@ ("redis" :> <<"7", "6">>)
                   ELSE LiveDatabases
        \* digitalocean.py:187-189
        k8s_versions == IF "kubernetes" \in failed
                        THEN <<"1.30", "1.29", "1.28">>
                        ELSE LiveKubernetes
        instance_types == IF sizes_data # <<>>
                          THEN _group_sizes_by_region(regions_data, sizes_data)
                          ELSE fallback.instance_types
    IN  ProviderResources(regions_data, instance_types, db_data,
                          Some(k8s_versions), None)

\* generator.py:18-22
api_clients == {"digitalocean"}

\* api/base.py:85-91: the static fallback a client inherits from APIClient
base_get_static_fallback ==
    ProviderResources(<<"unknown">>, ("unknown" :> <<"standard">>),
                      ("postgres" :> <<"15">>), None, None)

\* api/base.py:47-91: a client other than DigitalOcean's that the owner of a
\* generator has put into its api_clients under the name "hetzner". Nothing
\* but the APIClient interface is known of it: fetch_resources returns
\* resources or raises, the TTL and the static fallback are the inherited
\* ones.
registered_clients == {"digitalocean", "hetzner"}
client_static_fallback(provider_name) ==
    IF provider_name = "digitalocean" THEN get_static_fallback
    ELSE base_get_static_fallback

(***************************************************************************)
(* JSON documents of the cache files.                                      *)
(***************************************************************************)
End == [k |-> "}", v |-> <<>>]
Hole == [k |-> "\\0", v |-> <<>>]

\* json.dumps(cache_data): cache.py:69-73,82
CacheData(timestamp, provider, resources) ==
    << [k |-> "timestamp", v |-> timestamp],
       [k |-> "provider", v |-> provider],
       [k |-> "resources", v |-> to_dict(resources)],
       End >>

\* Documents that were not written by cache_resources.
Unparseable == << [k |-> "garbage", v |-> <<>>] >>
MissingTimestamp(p) ==
    << [k |-> "provider", v |-> p], [k |-> "resources", v |-> to_dict(LiveA)], End >>
MissingResources(p) ==
    << [k |-> "timestamp", v |-> 0], [k |-> "provider", v |-> p], End >>
NonObject == << [k |-> "[", v |-> <<>>], [k |-> "]", v |-> <<>>] >>

\* Objects whose fields are of the wrong JSON type: a timestamp that is no
\* string (a number, null, a list), written -1, and a resources value that
\* is no object (a list, a string, null), written as the value NotAnObject
NotAnObject == ("[" :> <<>>)
TimestampNotString(p) ==
    << [k |-> "timestamp", v |-> -1], [k |-> "provider", v |-> p],
       [k |-> "resources", v |-> to_dict(LiveA)], End >>
ResourcesNotObject(p) ==
    << [k |-> "timestamp", v |-> 0], [k |-> "provider", v |-> p],
       [k |-> "resources", v |-> NotAnObject], End >>

\* isinstance(value, str) of a timestamp, isinstance(value, dict) of a
\* resources value
IsStr(value) == value >= 0
IsDict(value) == "[" \notin DOMAIN value

FieldKeys == {"timestamp", "provider", "resources"}

\* json.loads succeeds on the text of d
IsJson(d) ==
    \/ d = NonObject
    \/ /\ Len(d) >= 1
       /\ d[Len(d)] = End
       /\ \A i \in 1..(Len(d) - 1) : d[i].k \in FieldKeys
       /\ \A i, j \in 1..(Len(d) - 1) : d[i].k = d[j].k => i = j

IsObject(d) == IsJson(d) /\ d # NonObject

HasKey(d, key) == \E i \in 1..(Len(d) - 1) : d[i].k = key

\* cached_data[key]
Field(d, key) == (CHOOSE tok \in {d[i] : i \in 1..(Len(d) - 1)} : tok.k = key).v

\* A complete entry as cache_resources writes it for provider p
IsEntry(d, p) ==
    /\ Len(d) = 4
    /\ d[1].k = "timestamp" /\ d[1].v \in 0..MaxTime
    /\ d[2] = [k |-> "provider", v |-> p]
    /\ d[3].k = "resources" /\ DOMAIN d[3].v = ResourceKeys
    /\ d[4] = End

(***************************************************************************)
(* The cache directory.                                                    *)
(***************************************************************************)
Exts == {"json", "tmp"}
Paths == Providers \X Exts

\* cache.py:27-29
_get_cache_file(provider) == <<provider, "json">>

\* Mutant of with_suffix_tmp: the entry is written straight to the cache file.
with_suffix_same(cache_file) == cache_file

\* cache.py:79, cache_file.with_suffix(".tmp")
with_suffix_tmp(cache_file) == <<cache_file[1], "tmp">>

MaxInodes == 2 * Cardinality(Providers) + NumTasks
Inodes == 1..MaxInodes
FreeInode == [data |-> <<>>, mtime |-> 0]

Referenced(d, tk) == ({d[pth] : pth \in Paths} \cup {tk[t].f : t \in Tasks}) \ {0}

\* The inode a newly created file gets
NewInode(d, tk) == CHOOSE i \in Inodes :
    /\ i \notin Referenced(d, tk)
    /\ \A j \in 1..(i - 1) : j \in Referenced(d, tk)

\* An inode that no directory entry and no open file refers to is gone.
Collect(d, tk, ino) ==
    [i \in Inodes |-> IF i \in Referenced(d, tk) THEN ino[i] ELSE FreeInode]

exists(path) == dir[path] # 0

\* What a reader of the path would get; absent is the empty set.
Absent == {}
Stored(d, ino, path) == IF d[path] = 0 THEN Absent ELSE {ino[d[path]].data}
Target(provider) == Stored(dir, inodes, _get_cache_file(provider))

\* self.cache_dir.glob("*_resources.json")
glob == {p \in Providers : exists(_get_cache_file(p))}

\* write(2) of one token at position pos (1-based) of a file
WriteAt(data, pos, tok) ==
    [i \in 1..(IF pos > Len(data) THEN pos ELSE Len(data)) |->
        IF i = pos THEN tok ELSE IF i <= Len(data) THEN data[i] ELSE Hole]

(***************************************************************************)
(* Tasks (coroutines) and their locals.                                    *)
(***************************************************************************)
NoResources == [absent |-> TRUE]
NoRet == [kind |-> "none", resources |-> NoResources, count |-> 0,
          info |-> EmptyDict, value |-> <<>>]

\* The locals of a generate_schema call (generator.py:24-80) and what it has
\* done for the provider it is resolving: cached is the outcome of the cache
\* read ("none" before it, "skipped", "absent" or "hit"), fetched and wrote
\* count the calls of fetch_resources and cache_resources, client tells
\* whether the API client's HTTP client exists (api/base.py:52,93-99).
\* provider_schemas holds the resources each fragment is built from, order
\* the keys of that dict in the order of their insertion.
NoGen ==
    [active |-> FALSE, use_cache |-> FALSE, force_refresh |-> FALSE,
     token |-> FALSE, providers |-> <<>>, cached |-> "none", fetched |-> 0,
     wrote |-> 0, client |-> FALSE, resources |-> NoResources,
     provider_schemas |-> EmptyDict, order |-> <<>>, api_clients |-> {}]

\* The state of a fetch_resources call of the DigitalOcean client: whether
\* the HTTP client exists (api/base.py:52,93-99) and, for each category, the
\* _request_with_retry call made for it (api/base.py:101-125): its position
\* (pc), the loop variable attempt, the number of requests sent, the waits
\* slept so far in seconds, and the outcome of the last request.
NoFetch == [token |-> FALSE, client |-> FALSE, req |-> EmptyDict]

NewRequest ==
    [pc |-> "request", attempt |-> 0, sent |-> 0, slept |-> <<>>, last |-> "none"]

\* args holds the arguments of a call of a function that is looked at on
\* its own, ret.value what it returned.
Idle ==
    [op |-> "none", pc |-> "idle", provider |-> "", ttl_hours |-> 0,
     cache_data |-> <<>>, f |-> 0, pos |-> 0, content |-> <<>>,
     todo |-> {}, cache_info |-> EmptyDict, ret |-> NoRet, gen |-> NoGen,
     schema |-> EmptyDict, fetch |-> NoFetch, args |-> <<>>]

\* A new call runs in the first coroutine slot that is free.
Free(t) == task[t].pc \in {"idle", "done"}
CanCall(t) == Free(t) /\ ops < MaxOps /\ \A u \in 1..(t - 1) : ~Free(u)

Return(rec, ret) ==
    [Idle EXCEPT !.op = rec.op, !.pc = "done", !.provider = rec.provider,
                 !.ttl_hours = rec.ttl_hours, !.cache_data = rec.cache_data,
                 !.ret = ret, !.gen = [rec.gen EXCEPT !.active = FALSE],
                 !.args = rec.args]

RetAbsent == [NoRet EXCEPT !.kind = "absent"]
RetResources(r) == [NoRet EXCEPT !.kind = "resources", !.resources = r]
RetRaised == [NoRet EXCEPT !.kind = "raised"]
RetDone == [NoRet EXCEPT !.kind = "returned"]
RetCount(n) == [NoRet EXCEPT !.kind = "count", !.count = n]
RetInfo(info) == [NoRet EXCEPT !.kind = "info", !.info = info]
RetSchema == [NoRet EXCEPT !.kind = "schema"]
RetValue(value) == [NoRet EXCEPT !.kind = "value", !.value = value]

\* generator.py:49-51: the provider's schema is built from the resources and
\* the loop goes on with the next requested provider
Built(rec, resources) ==
    [rec EXCEPT !.pc = "gen_loop", !.ttl_hours = 0, !.cache_data = <<>>,
                !.content = <<>>,
                !.gen = [@ EXCEPT !.providers = Tail(@),
                                  !.resources = resources,
                                  !.provider_schemas = (rec.provider :> resources) @@ @,
                                  !.order = IF rec.provider \in DOMAIN rec.gen.provider_schemas
                                            THEN @ ELSE Append(@, rec.provider)]]

\* generator.py:61-65: get_cached_resources has returned to
\* _get_provider_resources; an exception leaves generate_schema
GenAfterGet(rec, ret) ==
    IF ret.kind = "raised" THEN Return(rec, RetRaised)
    ELSE IF ret.kind = "resources"
    THEN Built([rec EXCEPT !.gen.cached = "hit"], ret.resources)
    ELSE [rec EXCEPT !.pc = "gen_fetch", !.content = <<>>, !.gen.cached = "absent"]

\* The return of get_cached_resources to its caller
GetReturn(rec, ret) == IF rec.gen.active THEN GenAfterGet(rec, ret) ELSE Return(rec, ret)

\* The return of cache_resources to its caller (generator.py:72-74)
PutReturn(rec, ret) ==
    IF rec.gen.active THEN [rec EXCEPT !.pc = "gen_exit", !.f = 0, !.pos = 0]
    ELSE Return(rec, ret)

(***************************************************************************)
(* The per-provider locks of one SchemaCache: cache.py:25,31-35.           *)
(* locks is the _locks dict: provider -> holder of the lock (0 = free).    *)
(***************************************************************************)
\* Mutant of _get_lock: one lock for every provider.
_get_lock_shared(provider) == "digitalocean"

_get_lock(provider) == provider

\* Mutant of Locked: the lock never makes a caller wait.
NeverLocked(key) == FALSE

\* cache.py:47,76: async with lock waits while another coroutine holds it
Locked(key) == key \in DOMAIN locks /\ locks[key] # 0

\* lock = self._get_lock(provider); the lock is taken at once if it is free
Acquire(key, t) == (key :> t) @@ locks
Created(key) == IF key \in DOMAIN locks THEN locks ELSE (key :> 0) @@ locks
Release(key) == (key :> 0) @@ locks

(***************************************************************************)
(* Initial state: a cache directory left by earlier runs.  A cache file is *)
(* absent, a valid entry written at time 0, or a damaged document.         *)
(***************************************************************************)
InitDocs(p) ==
    IF p = "digitalocean"
    THEN {Absent, {CacheData(0, p, LiveA)}, {Unparseable}, {MissingTimestamp(p)},
          {MissingResources(p)}, {NonObject}}
    ELSE {{CacheData(0, p, LiveA)}}

InitFiles(docs) ==
    LET present == {p \in Providers : docs[p] # Absent}
        ino(p) == Cardinality({q \in present : q = "digitalocean" \/ q = p})
    IN  /\ dir = [pth \in Paths |->
                    IF pth[2] = "json" /\ pth[1] \in present THEN ino(pth[1]) ELSE 0]
        /\ inodes = [i \in Inodes |->
                    IF \E p \in present : ino(p) = i
                    THEN [data |-> CHOOSE d \in docs[CHOOSE p \in present : ino(p) = i] : TRUE,
                          mtime |-> 0]
                    ELSE FreeInode]

Init ==
    /\ now = 0
    /\ \E docs \in [Providers -> UNION {InitDocs(p) : p \in Providers} \cup {Absent}] :
          /\ \A p \in Providers : docs[p] \in InitDocs(p)
          /\ InitFiles(docs)
    /\ locks = EmptyDict
    /\ task = [t \in Tasks |-> Idle]
    /\ ops = 0
    /\ crashes = 0
    /\ faults = 0

SetTask(t, rec) == task' = [task EXCEPT ![t] = rec]

(***************************************************************************)
(* get_cached_resources: cache.py:37-61                                    *)
(***************************************************************************)
\* Mutant of Expired: the TTL is taken as days, timedelta(days=ttl_hours).
ExpiredDays(now_, cached_time, ttl_hours) == now_ - cached_time > ttl_hours * 24

\* cache.py:54, datetime.now() - cached_time > timedelta(hours=ttl_hours)
Expired(now_, cached_time, ttl_hours) == now_ - cached_time > ttl_hours

\* Mutant of GetResult: only json.JSONDecodeError is caught, a KeyError
\* leaves the call.
GetResultKeyError(content, ttl_hours, now_) ==
    IF ~IsJson(content) THEN RetAbsent
    ELSE IF ~IsObject(content) THEN RetRaised
    ELSE IF ~HasKey(content, "timestamp") THEN RetRaised
    ELSE IF Expired(now_, Field(content, "timestamp"), ttl_hours) THEN RetAbsent
    ELSE IF ~HasKey(content, "resources") THEN RetRaised
    ELSE RetResources(from_dict(Field(content, "resources")))

\* cache.py:51-61: what the call returns for the text read from the file
GetResult(content, ttl_hours, now_) ==
    IF ~IsJson(content) THEN RetAbsent                 \* json.JSONDecodeError
    ELSE IF ~IsObject(content) THEN RetRaised          \* TypeError, not caught
    ELSE IF ~HasKey(content, "timestamp") THEN RetAbsent          \* KeyError
    \* cache.py:53: datetime.fromisoformat of a non-string is a TypeError
    ELSE IF ~IsStr(Field(content, "timestamp")) THEN RetRaised
    ELSE IF Expired(now_, Field(content, "timestamp"), ttl_hours) THEN RetAbsent
    ELSE IF ~HasKey(content, "resources") THEN RetAbsent          \* KeyError
    \* api/base.py:38-43: data.get of a non-dict is an AttributeError
    ELSE IF ~IsDict(Field(content, "resources")) THEN RetRaised
    ELSE RetResources(from_dict(Field(content, "resources")))

\* cache.py:41-47: get_cached_resources(rec.provider, rec.ttl_hours) up to
\* its first await
GetBegin(t, rec) ==
    LET lock == _get_lock(rec.provider)
    IN  IF ~exists(_get_cache_file(rec.provider))
        THEN SetTask(t, GetReturn(rec, RetAbsent)) /\ locks' = locks
        ELSE IF ~Locked(lock)
        THEN SetTask(t, [rec EXCEPT !.pc = "get_open"]) /\ locks' = Acquire(lock, t)
        ELSE SetTask(t, [rec EXCEPT !.pc = "get_wait"]) /\ locks' = locks

\* A caller of the cache calls get_cached_resources
GetCall(t, provider, ttl_hours) ==
    /\ CanCall(t)
    /\ GetBegin(t, [Idle EXCEPT !.op = "get_cached_resources",
                                !.provider = provider, !.ttl_hours = ttl_hours])
    /\ ops' = ops + 1
    /\ UNCHANGED <<now, dir, inodes, crashes, faults>>

\* cache.py:47: the lock is granted to a waiting reader
GetAcquire(t) ==
    /\ task[t].pc = "get_wait"
    /\ ~Locked(_get_lock(task[t].provider))
    /\ SetTask(t, [task[t] EXCEPT !.pc = "get_open"])
    /\ locks' = Acquire(_get_lock(task[t].provider), t)
    /\ UNCHANGED <<now, dir, inodes, ops, crashes, faults>>

\* cache.py:49: aiofiles.open(cache_file); a missing file is an OSError
GetOpen(t) ==
    /\ task[t].pc = "get_open"
    /\ LET cache_file == _get_cache_file(task[t].provider)
       IN  IF exists(cache_file)
           THEN /\ SetTask(t, [task[t] EXCEPT !.pc = "get_read", !.f = dir[cache_file]])
                /\ locks' = locks
           ELSE /\ SetTask(t, GetReturn(task[t], RetAbsent))
                /\ locks' = Release(_get_lock(task[t].provider))
    /\ UNCHANGED <<now, dir, inodes, ops, crashes, faults>>

\* cache.py:50: content = await f.read(), then the file is closed
GetRead(t) ==
    /\ task[t].pc = "get_read"
    /\ SetTask(t, [task[t] EXCEPT !.pc = "get_eval", !.f = 0,
                                  !.content = inodes[task[t].f].data])
    /\ inodes' = Collect(dir, task', inodes)
    /\ UNCHANGED <<now, dir, locks, ops, crashes, faults>>

\* Mutant of GetEval: a read that misses removes the cache file.
GetEvalUnlink(t) ==
    /\ task[t].pc = "get_eval"
    /\ LET ret == GetResult(task[t].content, task[t].ttl_hours, now)
           cache_file == _get_cache_file(task[t].provider)
       IN  /\ SetTask(t, GetReturn(task[t], ret))
           /\ dir' = IF ret = RetAbsent THEN [dir EXCEPT ![cache_file] = 0] ELSE dir
           /\ inodes' = Collect(dir', task', inodes)
    /\ locks' = Release(_get_lock(task[t].provider))
    /\ UNCHANGED <<now, ops, crashes, faults>>

\* cache.py:51-61: parse, compare the age, return; the lock is released
GetEval(t) ==
    /\ task[t].pc = "get_eval"
    /\ SetTask(t, GetReturn(task[t], GetResult(task[t].content, task[t].ttl_hours, now)))
    /\ locks' = Release(_get_lock(task[t].provider))
    /\ UNCHANGED <<now, dir, inodes, ops, crashes, faults>>

(***************************************************************************)
(* cache_resources: cache.py:63-88                                         *)
(***************************************************************************)
\* Mutant of PutBegin: the entry is stamped with the time at which it
\* expires, not the time of the call.
PutBeginStampedAhead(t, rec, resources) ==
    LET lock == _get_lock(rec.provider)
        call == [rec EXCEPT !.cache_data =
                    CacheData(now + DefaultTtlHours, rec.provider, resources)]
    IN  IF ~Locked(lock)
        THEN SetTask(t, [call EXCEPT !.pc = "put_open"]) /\ locks' = Acquire(lock, t)
        ELSE SetTask(t, [call EXCEPT !.pc = "put_wait"]) /\ locks' = locks

\* cache.py:67-76: cache_resources(rec.provider, resources) up to its first
\* await; cache_data is built before the lock is taken
PutBegin(t, rec, resources) ==
    LET lock == _get_lock(rec.provider)
        call == [rec EXCEPT !.cache_data = CacheData(now, rec.provider, resources)]
    IN  IF ~Locked(lock)
        THEN SetTask(t, [call EXCEPT !.pc = "put_open"]) /\ locks' = Acquire(lock, t)
        ELSE SetTask(t, [call EXCEPT !.pc = "put_wait"]) /\ locks' = locks

\* A caller of the cache calls cache_resources
PutCall(t, provider, resources) ==
    /\ CanCall(t)
    /\ PutBegin(t, [Idle EXCEPT !.op = "cache_resources", !.provider = provider],
                resources)
    /\ ops' = ops + 1
    /\ UNCHANGED <<now, dir, inodes, crashes, faults>>

\* cache.py:76: the lock is granted to a waiting writer
PutAcquire(t) ==
    /\ task[t].pc = "put_wait"
    /\ ~Locked(_get_lock(task[t].provider))
    /\ SetTask(t, [task[t] EXCEPT !.pc = "put_open"])
    /\ locks' = Acquire(_get_lock(task[t].provider), t)
    /\ UNCHANGED <<now, dir, inodes, ops, crashes, faults>>

\* cache.py:79-81: aiofiles.open(temp_file, "w") creates or truncates the file
PutOpen(t) ==
    /\ task[t].pc = "put_open"
    /\ LET temp_file == with_suffix_tmp(_get_cache_file(task[t].provider))
           i == IF exists(temp_file) THEN dir[temp_file] ELSE NewInode(dir, task)
       IN  /\ dir' = [dir EXCEPT ![temp_file] = i]
           /\ inodes' = [inodes EXCEPT ![i] = [data |-> <<>>, mtime |-> now]]
           /\ SetTask(t, [task[t] EXCEPT !.pc = "put_write", !.f = i, !.pos = 1])
    /\ UNCHANGED <<now, locks, ops, crashes, faults>>

\* write(2) of the tokens toks at position pos (1-based) of a file
RECURSIVE WriteAll(_, _, _)
WriteAll(data, pos, toks) ==
    IF toks = <<>> THEN data
    ELSE WriteAll(WriteAt(data, pos, Head(toks)), pos + 1, Tail(toks))

Min(a, b) == IF a < b THEN a ELSE b

\* cache.py:82: the text reaches the file in chunks of ChunkTokens tokens; the
\* file is closed after the last one
PutWrite(t) ==
    /\ task[t].pc = "put_write"
    /\ LET rec == task[t]
           upto == Min(rec.pos + ChunkTokens - 1, Len(rec.cache_data))
           written == [inodes EXCEPT ![rec.f] =
                         [data |-> WriteAll(inodes[rec.f].data, rec.pos,
                                            SubSeq(rec.cache_data, rec.pos, upto)),
                          mtime |-> now]]
       IN  /\ SetTask(t, IF upto = Len(rec.cache_data)
                         THEN [rec EXCEPT !.pc = "put_rename", !.f = 0, !.pos = 0]
                         ELSE [rec EXCEPT !.pos = upto + 1])
           /\ inodes' = Collect(dir, task', written)
    /\ UNCHANGED <<now, dir, locks, ops, crashes, faults>>

\* Mutant of PutRename: the temp file does not replace a cache file that is
\* already there.
PutRenameIfAbsent(t) ==
    /\ task[t].pc = "put_rename"
    /\ LET cache_file == _get_cache_file(task[t].provider)
           temp_file == with_suffix_tmp(cache_file)
       IN  /\ dir' = IF exists(temp_file) /\ ~exists(cache_file)
                     THEN [dir EXCEPT ![cache_file] = dir[temp_file], ![temp_file] = 0]
                     ELSE dir
           /\ SetTask(t, PutReturn(task[t], RetDone))
           /\ inodes' = Collect(dir', task', inodes)
    /\ locks' = Release(_get_lock(task[t].provider))
    /\ UNCHANGED <<now, ops, crashes, faults>>

\* cache.py:85-88: temp_file.replace(cache_file); a missing temp file is an
\* OSError, which is printed; the lock is released
PutRename(t) ==
    /\ task[t].pc = "put_rename"
    /\ LET cache_file == _get_cache_file(task[t].provider)
           temp_file == with_suffix_tmp(cache_file)
       IN  /\ dir' = IF exists(temp_file) /\ temp_file # cache_file
                     THEN [dir EXCEPT ![cache_file] = dir[temp_file], ![temp_file] = 0]
                     ELSE dir
           /\ SetTask(t, PutReturn(task[t], RetDone))
           /\ inodes' = Collect(dir', task', inodes)
    /\ locks' = Release(_get_lock(task[t].provider))
    /\ UNCHANGED <<now, ops, crashes, faults>>

\* Mutant of PutFault: the OSError is not caught in cache_resources; the
\* except clause of _get_provider_resources (generator.py:76-80) answers it
\* with the static fallback.
PutFaultPropagates(t) ==
    /\ task[t].pc \in {"put_open", "put_write", "put_rename"}
    /\ faults < MaxFaults
    /\ faults' = faults + 1
    /\ SetTask(t, IF task[t].gen.active
                  THEN Built([task[t] EXCEPT !.gen.client = FALSE, !.f = 0, !.pos = 0],
                             get_static_fallback)
                  ELSE Return(task[t], RetRaised))
    /\ inodes' = Collect(dir, task', inodes)
    /\ locks' = Release(_get_lock(task[t].provider))
    /\ UNCHANGED <<now, dir, ops, crashes>>

\* Mutant of PutFault: the OSError leaves cache_resources without the lock
\* being released.
PutFaultHeld(t) ==
    /\ task[t].pc \in {"put_open", "put_write", "put_rename"}
    /\ faults < MaxFaults
    /\ faults' = faults + 1
    /\ SetTask(t, PutReturn(task[t], RetDone))
    /\ inodes' = Collect(dir, task', inodes)
    /\ locks' = locks
    /\ UNCHANGED <<now, dir, ops, crashes>>

\* cache.py:87-88: open, write or rename fails with an OSError (disk full,
\* permissions); it is printed and the call returns
PutFault(t) ==
    /\ task[t].pc \in {"put_open", "put_write", "put_rename"}
    /\ faults < MaxFaults
    /\ faults' = faults + 1
    /\ SetTask(t, PutReturn(task[t], RetDone))
    /\ inodes' = Collect(dir, task', inodes)
    /\ locks' = Release(_get_lock(task[t].provider))
    /\ UNCHANGED <<now, dir, ops, crashes>>

(***************************************************************************)
(* clear_cache: cache.py:90-111.  The coroutine never awaits: one step.    *)
(* provider = "" stands for None (both are falsy at cache.py:94).          *)
(***************************************************************************)
\* Mutant of ClearCache: every cache file is removed, whatever the provider.
ClearCacheAll(t, provider) ==
    /\ CanCall(t)
    /\ dir' = [pth \in Paths |->
                 IF pth \in {_get_cache_file(q) : q \in glob} THEN 0 ELSE dir[pth]]
    /\ SetTask(t, Return([Idle EXCEPT !.op = "clear_cache", !.provider = provider],
                         RetCount(Cardinality(glob))))
    /\ inodes' = Collect(dir', task', inodes)
    /\ ops' = ops + 1
    /\ UNCHANGED <<now, locks, crashes, faults>>

ClearCache(t, provider) ==
    /\ CanCall(t)
    /\ LET removed == IF provider # "" THEN glob \cap {provider} ELSE glob
       IN  /\ dir' = [pth \in Paths |->
                        IF pth \in {_get_cache_file(q) : q \in removed} THEN 0 ELSE dir[pth]]
           /\ SetTask(t, Return([Idle EXCEPT !.op = "clear_cache", !.provider = provider],
                                RetCount(Cardinality(removed))))
           /\ inodes' = Collect(dir', task', inodes)
    /\ ops' = ops + 1
    /\ UNCHANGED <<now, locks, crashes, faults>>

(***************************************************************************)
(* cleanup_old_cache: cache.py:146-162.  The coroutine never awaits: one   *)
(* step.  Times are in hours.                                              *)
(***************************************************************************)
\* The retention horizons asked for, in days
AgeInputs == {0, 1}

\* cache.py:148: datetime.now() - timedelta(days=max_age_days)
cutoff_time(now_, max_age_days) == now_ - 24 * max_age_days

\* Mutant of file_mtime: the time stored in the entry is taken.
file_timestamp(cache_file) ==
    LET d == inodes[dir[cache_file]].data
    IN  IF IsObject(d) /\ HasKey(d, "timestamp") THEN Field(d, "timestamp") ELSE 0

\* cache.py:153: cache_file.stat().st_mtime
file_mtime(cache_file) == inodes[dir[cache_file]].mtime

\* cache.py:146-162: every cache file of the listing whose modification time
\* is before the cutoff is unlinked and counted
CleanupOldCache(t, max_age_days) ==
    /\ CanCall(t)
    /\ LET removed == {p \in glob : file_mtime(_get_cache_file(p))
                                      < cutoff_time(now, max_age_days)}
       IN  /\ dir' = [pth \in Paths |->
                        IF pth \in {_get_cache_file(q) : q \in removed} THEN 0 ELSE dir[pth]]
           /\ SetTask(t, Return([Idle EXCEPT !.op = "cleanup_old_cache",
                                             !.args = <<max_age_days>>],
                                RetCount(Cardinality(removed))))
           /\ inodes' = Collect(dir', task', inodes)
    /\ ops' = ops + 1
    /\ UNCHANGED <<now, locks, crashes, faults>>

(***************************************************************************)
(* get_cache_info: cache.py:113-144                                        *)
(***************************************************************************)
RECURSIVE SumLen(_)
\* cache.py:133-138: sum(len(types) for types in instance_types.values())
SumLen(d) ==
    IF DOMAIN d = {} THEN 0
    ELSE LET key == CHOOSE x \in DOMAIN d : TRUE
         IN  Len(d[key]) + SumLen([x \in DOMAIN d \ {key} |-> d[x]])

Corrupted == [status |-> "corrupted"]

\* cache.py:123-142: the record of one cache file, from the text read from it;
\* size is the set holding st_size, empty when stat() finds no file. The
\* result is a set: empty when an exception leaves the function.
InfoRecord(content, now_, size) ==
    IF ~IsJson(content) THEN {Corrupted}               \* json.JSONDecodeError
    ELSE IF ~IsObject(content) THEN {}                 \* TypeError, not caught
    ELSE IF ~HasKey(content, "timestamp") THEN {Corrupted}        \* KeyError
    ELSE IF size = {} THEN {Corrupted}                 \* FileNotFoundError
    ELSE IF ~HasKey(content, "resources") THEN {Corrupted}        \* KeyError
    ELSE LET resources == Field(content, "resources")
         IN  {[timestamp |-> Field(content, "timestamp"),
               age_hours |-> now_ - Field(content, "timestamp"),
               file_size |-> CHOOSE n \in size : TRUE,
               regions_count |-> Len(DictGet(resources, "regions", <<>>)),
               instance_types_count |->
                   SumLen(DictGet(resources, "instance_types", EmptyDict))]}

\* cache.py:115-117: the glob lists the cache files
InfoCall(t) ==
    /\ CanCall(t)
    /\ SetTask(t, [Idle EXCEPT !.op = "get_cache_info", !.pc = "info_loop",
                               !.todo = glob])
    /\ ops' = ops + 1
    /\ UNCHANGED <<now, dir, inodes, locks, crashes, faults>>

\* cache.py:117-121: the next file of the listing is opened; no lock is taken
InfoOpen(t, provider_name) ==
    /\ task[t].pc = "info_loop"
    /\ provider_name \in task[t].todo
    /\ LET cache_file == _get_cache_file(provider_name)
           rec == [task[t] EXCEPT !.todo = @ \ {provider_name},
                                  !.provider = provider_name]
       IN  IF exists(cache_file)
           THEN SetTask(t, [rec EXCEPT !.pc = "info_read", !.f = dir[cache_file]])
           ELSE SetTask(t, [rec EXCEPT !.cache_info =
                                (provider_name :> Corrupted) @@ @])
    /\ UNCHANGED <<now, dir, inodes, locks, ops, crashes, faults>>

\* cache.py:122: content = await f.read(), then the file is closed
InfoRead(t) ==
    /\ task[t].pc = "info_read"
    /\ SetTask(t, [task[t] EXCEPT !.pc = "info_eval", !.f = 0,
                                  !.content = inodes[task[t].f].data])
    /\ inodes' = Collect(dir, task', inodes)
    /\ UNCHANGED <<now, dir, locks, ops, crashes, faults>>

\* cache.py:123-142: the record is stored, or the exception leaves the call
InfoEval(t) ==
    /\ task[t].pc = "info_eval"
    /\ LET cache_file == _get_cache_file(task[t].provider)
           size == IF exists(cache_file) THEN {Len(inodes[dir[cache_file]].data)} ELSE {}
           record == InfoRecord(task[t].content, now, size)
       IN  IF record = {}
           THEN SetTask(t, Return(task[t], RetRaised))
           ELSE SetTask(t, [task[t] EXCEPT
                    !.pc = "info_loop", !.content = <<>>,
                    !.cache_info = (task[t].provider :> CHOOSE r \in record : TRUE) @@ @])
    /\ UNCHANGED <<now, dir, inodes, locks, ops, crashes, faults>>

\* cache.py:144: return cache_info
InfoReturn(t) ==
    /\ task[t].pc = "info_loop"
    /\ task[t].todo = {}
    /\ SetTask(t, Return([task[t] EXCEPT !.provider = ""], RetInfo(task[t].cache_info)))
    /\ UNCHANGED <<now, dir, inodes, locks, ops, crashes, faults>>

(***************************************************************************)
(* fetch_resources and _request_with_retry: digitalocean.py:35-91,         *)
(* api/base.py:101-125.  The four requests of a fetch run concurrently     *)
(* (asyncio.gather); each step is one awaited request or one sleep.        *)
(***************************************************************************)
\* api/base.py:73
max_retries == 3

\* What the network answers to one request: a response with a 2xx status, a
\* 429 response, a response with another error status, or no response at all
\* (httpx.RequestError, httpx.TimeoutException)
Outcomes == {"ok", "429", "error", "transient"}

RECURSIVE Pow2(_)
Pow2(n) == IF n = 0 THEN 1 ELSE 2 * Pow2(n - 1)

\* Mutant of wait_time: the wait grows by two seconds per attempt.
wait_linear(attempt) == 2 * attempt + 1

\* api/base.py:115,123: 2**attempt
wait_time(attempt) == Pow2(attempt)

\* Mutant of range_ends: the loop runs once more.
range_ends_late(attempt) == attempt > max_retries

\* api/base.py:107: for attempt in range(self.max_retries) is exhausted
range_ends(attempt) == attempt >= max_retries

\* Mutant of Attempted: an error status other than 429 is retried like a
\* network error.
AttemptedRetryAll(r, outcome) ==
    LET sent == [r EXCEPT !.sent = @ + 1, !.last = outcome]
    IN  IF outcome = "ok" THEN [sent EXCEPT !.pc = "returned"]
        ELSE IF outcome = "429"
        THEN [sent EXCEPT !.pc = "sleep", !.slept = Append(@, wait_time(r.attempt))]
        ELSE IF r.attempt = max_retries - 1 THEN [sent EXCEPT !.pc = "raised"]
        ELSE [sent EXCEPT !.pc = "sleep", !.slept = Append(@, wait_time(r.attempt))]

\* api/base.py:108-123: one pass of the loop body up to its next await: the
\* request is sent and answered; r is the call's state
Attempted(r, outcome) ==
    LET sent == [r EXCEPT !.sent = @ + 1, !.last = outcome]
    IN  IF outcome = "ok" THEN [sent EXCEPT !.pc = "returned"]
        ELSE IF outcome = "429"
        THEN [sent EXCEPT !.pc = "sleep", !.slept = Append(@, wait_time(r.attempt))]
        ELSE IF outcome = "error" THEN [sent EXCEPT !.pc = "raised"]
        ELSE IF r.attempt = max_retries - 1 THEN [sent EXCEPT !.pc = "raised"]
        ELSE [sent EXCEPT !.pc = "sleep", !.slept = Append(@, wait_time(r.attempt))]

\* api/base.py:116-117,123,107,125: the sleep is over and the loop takes the
\* next attempt, or is exhausted and raises RequestError
Woken(r) ==
    IF range_ends(r.attempt + 1)
    THEN [r EXCEPT !.pc = "raised", !.attempt = @ + 1, !.last = "exhausted"]
    ELSE [r EXCEPT !.pc = "request", !.attempt = @ + 1]

Settled(r) == r.pc \in {"returned", "raised"}

\* Mutant of FetchCall: the token is not looked at.
FetchCallBlind(t, token) ==
    /\ CanCall(t)
    /\ \A u \in Tasks : Free(u)
    /\ SetTask(t, [Idle EXCEPT
            !.op = "fetch_resources", !.pc = "fetch_gather",
            !.provider = "digitalocean",
            !.fetch = [NoFetch EXCEPT !.token = token,
                                      !.req = [c \in Categories |-> NewRequest]]])
    /\ ops' = ops + 1
    /\ UNCHANGED <<now, dir, inodes, locks, crashes, faults>>

\* digitalocean.py:35-55: fetch_resources is called; without the token it
\* returns the static fallback at once, with it the four requests start
FetchCall(t, token) ==
    /\ CanCall(t)
    /\ \A u \in Tasks : Free(u)
    /\ SetTask(t,
          IF ~token
          THEN Return([Idle EXCEPT !.op = "fetch_resources",
                                   !.provider = "digitalocean"],
                      RetResources(get_static_fallback))
          ELSE [Idle EXCEPT
                  !.op = "fetch_resources", !.pc = "fetch_gather",
                  !.provider = "digitalocean",
                  !.fetch = [NoFetch EXCEPT !.token = token,
                                            !.req = [c \in Categories |-> NewRequest]]])
    /\ ops' = ops + 1
    /\ UNCHANGED <<now, dir, inodes, locks, crashes, faults>>

\* api/base.py:105,109-123: the request of category c is sent (the first
\* one creates the HTTP client) and answered
RetryRequest(t, c, outcome) ==
    /\ task[t].pc = "fetch_gather"
    /\ task[t].fetch.req[c].pc = "request"
    /\ SetTask(t, [task[t] EXCEPT
            !.fetch = [@ EXCEPT !.client = TRUE,
                                !.req[c] = Attempted(@, outcome)]])
    /\ UNCHANGED <<now, dir, inodes, locks, ops, crashes, faults>>

\* api/base.py:116,123: asyncio.sleep returns
RetryWake(t, c) ==
    /\ task[t].pc = "fetch_gather"
    /\ task[t].fetch.req[c].pc = "sleep"
    /\ SetTask(t, [task[t] EXCEPT !.fetch.req[c] = Woken(@)])
    /\ UNCHANGED <<now, dir, inodes, locks, ops, crashes, faults>>

\* digitalocean.py:49-91: all four requests are settled, gather returns and
\* the resources are put together
FetchGather(t) ==
    /\ task[t].pc = "fetch_gather"
    /\ \A c \in Categories : Settled(task[t].fetch.req[c])
    /\ LET failed == {c \in Categories : task[t].fetch.req[c].pc = "raised"}
           resources == fetch_resources(task[t].fetch.token, failed)
       IN  SetTask(t, [Return(task[t], RetResources(resources))
                         EXCEPT !.fetch = task[t].fetch])
    /\ UNCHANGED <<now, dir, inodes, locks, ops, crashes, faults>>

FetchNext ==
    \/ \E t \in Tasks, token \in BOOLEAN : FetchCall(t, token)
    \/ \E t \in Tasks, c \in Categories, outcome \in Outcomes :
            RetryRequest(t, c, outcome)
    \/ \E t \in Tasks, c \in Categories : RetryWake(t, c)
    \/ \E t \in Tasks : FetchGather(t)

\* The fetch does not touch the cache: it is looked at from the states in
\* which digitalocean has no cache file.
FetchInit == Init /\ ~exists(_get_cache_file("digitalocean"))

FetchSpec == FetchInit /\ [][FetchNext]_vars

\* Every request is answered or times out (api/base.py:65-68,96-98) and
\* every sleep ends, so a step of a running fetch is eventually taken.
FetchProgress ==
    \E t \in Tasks :
        \/ \E c \in Categories, outcome \in Outcomes : RetryRequest(t, c, outcome)
        \/ \E c \in Categories : RetryWake(t, c)
        \/ FetchGather(t)

FairFetchSpec == FetchSpec /\ WF_vars(FetchProgress)

(***************************************************************************)
(* The schema document: generator.py:82-203.  A JSON object is a function  *)
(* of its keys; a string that the code puts together from pieces is the    *)
(* sequence of the pieces.                                                 *)
(***************************************************************************)
\* str.title() of the names that occur
title(name) ==
    CASE name = "digitalocean" -> "Digitalocean"
      [] name = "hetzner" -> "Hetzner"
      [] name = "postgres" -> "Postgres"
      [] name = "mysql" -> "Mysql"
      [] name = "redis" -> "Redis"
      [] OTHER -> name

\* The order in which the database_types dicts of the program hold their
\* engines (digitalocean.py:164-166,221-223); a dict is iterated in it.
EngineOrder == <<"postgres", "mysql", "redis">>

\* A dict keeps its keys in the order of their insertion, and == on dicts
\* (so on ProviderResources, api/base.py:11-23) does not look at it.
\* Resources whose database_types holds its engines in another order than
\* EngineOrder carry that order in the extra field database_keys.
Ordered(resources, engines) == ("database_keys" :> engines) @@ resources

\* api/base.py:11: the __eq__ the dataclass generates
Eq(r1, r2) == \A k \in ResourceKeys : r1[k] = r2[k]

\* The keys of the dict resources.database_types, in iteration order
Engines(resources) ==
    LET Present(e) == e \in DOMAIN resources.database_types
    IN  IF "database_keys" \in DOMAIN resources THEN resources.database_keys
        ELSE SelectSeq(EngineOrder, Present)

\* Mutant of all_instance_types: only the sizes under the wildcard key.
wildcard_instance_types(resources) ==
    IF "*" \in DOMAIN resources.instance_types
    THEN Elems(resources.instance_types["*"]) ELSE {}

\* generator.py:99-101: the set of all instance types
all_instance_types(resources) ==
    UNION {Elems(resources.instance_types[k]) : k \in DOMAIN resources.instance_types}

\* generator.py:122: the truth value of an optional list
Truthy(optional) == optional # None /\ optional[1] # <<>>

Ref(name) == ("$ref" :> (<<"#/definitions/">> \o name))

Enum(values, description) ==
    [type |-> "string", enum |-> values, description |-> description]

RECURSIVE VersionDefinitions(_, _, _, _)
\* generator.py:112-119: one definition for each engine that has versions
VersionDefinitions(provider_name, provider_title, database_types, engines) ==
    IF engines = <<>> THEN EmptyDict
    ELSE LET db_type == Head(engines)
             versions == database_types[db_type]
             rest == VersionDefinitions(provider_name, provider_title,
                                        database_types, Tail(engines))
         IN  IF versions # <<>>
             THEN (<<provider_title, title(db_type), "Versions">> :>
                     Enum(versions, <<"Available ", db_type, " versions on ",
                                      provider_name>>)) @@ rest
             ELSE rest

RECURSIVE VersionProps(_, _, _, _)
\* generator.py:157-172: database_props after the loop over the engines:
\* every engine that has versions assigns the key "version" anew
VersionProps(provider_title, database_types, engines, database_props) ==
    IF engines = <<>> THEN database_props
    ELSE LET db_type == Head(engines)
             rule == ("if" :> [properties |-> [type |-> [const |-> db_type]]])
                     @@ ("then" :> Ref(<<provider_title, title(db_type), "Versions">>))
         IN  VersionProps(provider_title, database_types, Tail(engines),
                 IF database_types[db_type] # <<>>
                 THEN [version |-> [anyOf |-> <<rule>>]]
                 ELSE database_props)

\* generator.py:136-183
_build_conditional_schema(provider_name, provider_title, resources) ==
    LET region == IF resources.regions # <<>>
                  THEN ("region" :> Ref(<<provider_title, "Regions">>))
                  ELSE EmptyDict
        size == IF \E k \in DOMAIN resources.instance_types :
                       resources.instance_types[k] # <<>>
                THEN ("size" :> Ref(<<provider_title, "InstanceTypes">>))
                ELSE EmptyDict
        database_props ==
            VersionProps(provider_title, resources.database_types,
                         Engines(resources), EmptyDict)
        database == IF database_props # EmptyDict
                    THEN ("database" :> [properties |-> database_props])
                    ELSE EmptyDict
        infrastructure_props == size @@ database
        infrastructure ==
            IF infrastructure_props # EmptyDict
            THEN ("infrastructure" :> [properties |-> infrastructure_props])
            ELSE EmptyDict
        properties == region @@ infrastructure
    IN  ("if" :> [properties |-> [provider |-> [const |-> provider_name]]])
        @@ ("then" :> IF properties # EmptyDict THEN [properties |-> properties]
                      ELSE EmptyDict)

\* generator.py:82-134
_build_provider_schema(provider_name, resources) ==
    LET provider_title == title(provider_name)
        regions ==
            IF resources.regions # <<>>
            THEN (<<provider_title, "Regions">> :>
                    Enum(resources.regions,
                         <<"Available ", provider_name, " regions">>))
            ELSE EmptyDict
        types ==
            IF all_instance_types(resources) # {}
            THEN (<<provider_title, "InstanceTypes">> :>
                    Enum(sorted(ListOfSet(all_instance_types(resources))),
                         <<"Available ", provider_name, " instance types">>))
            ELSE EmptyDict
        versions ==
            VersionDefinitions(provider_name, provider_title,
                               resources.database_types, Engines(resources))
        kubernetes ==
            IF Truthy(resources.kubernetes_versions)
            THEN (<<provider_title, "KubernetesVersions">> :>
                    Enum(resources.kubernetes_versions[1],
                         <<"Available Kubernetes versions on ", provider_name>>))
            ELSE EmptyDict
    IN  [definitions |-> regions @@ types @@ versions @@ kubernetes,
         conditional |-> _build_conditional_schema(provider_name, provider_title,
                                                   resources)]

RECURSIVE VersionKeys(_, _, _)
\* generator.py:112-114: the names of the version definitions, in the order
\* in which the loop over the engines inserts them
VersionKeys(provider_title, database_types, engines) ==
    IF engines = <<>> THEN <<>>
    ELSE (IF database_types[Head(engines)] # <<>>
          THEN << <<provider_title, title(Head(engines)), "Versions">> >>
          ELSE <<>>)
         \o VersionKeys(provider_title, database_types, Tail(engines))

\* generator.py:88-127: the keys of the fragment's definitions in the order
\* of their insertion, which is the order json.dumps writes them in
definition_keys(provider_name, resources) ==
    LET provider_title == title(provider_name)
    IN  (IF resources.regions # <<>> THEN << <<provider_title, "Regions">> >> ELSE <<>>)
        \o (IF all_instance_types(resources) # {}
            THEN << <<provider_title, "InstanceTypes">> >> ELSE <<>>)
        \o VersionKeys(provider_title, resources.database_types, Engines(resources))
        \o (IF Truthy(resources.kubernetes_versions)
            THEN << <<provider_title, "KubernetesVersions">> >> ELSE <<>>)

\* generator.py:32: PDSConfig.model_json_schema(), the schema pydantic makes
\* of the configuration model (config/models.py:206-218): its top-level keys,
\* with the values left opaque
base_schema ==
    ("$defs" :> "models") @@ ("description" :> "Main PDS configuration model.")
    @@ ("properties" :> "fields") @@ ("required" :> "required fields")
    @@ ("title" :> "PDSConfig") @@ ("type" :> "object")

\* Mutant of MergedDefinitions: the definitions of the last fragment replace
\* those of the fragments before it.
LastDefinitions(definitions, fragments) ==
    IF fragments = <<>> THEN definitions
    ELSE fragments[Len(fragments)].definitions @@ definitions

RECURSIVE MergedDefinitions(_, _)
\* generator.py:195-196: update() with each fragment's definitions, in the
\* order of the dict; a later fragment overwrites an equal name
MergedDefinitions(definitions, fragments) ==
    IF fragments = <<>> THEN definitions
    ELSE MergedDefinitions(Head(fragments).definitions @@ definitions, Tail(fragments))

\* generator.py:185-203; fragments is provider_schemas.values()
_merge_schemas(base, fragments) ==
    LET with_definitions ==
            IF "definitions" \notin DOMAIN base
            THEN base @@ ("definitions" :> EmptyDict)
            ELSE base
        definitions == MergedDefinitions(with_definitions["definitions"], fragments)
        conditionals == [i \in 1..Len(fragments) |-> fragments[i].conditional]
        result == ("definitions" :> definitions) @@ with_definitions
    IN  IF conditionals # <<>> THEN ("allOf" :> conditionals) @@ result ELSE result

(***************************************************************************)
(* Calls of the functions that touch neither the cache nor the network,    *)
(* on arguments drawn from small sets.  The cache directory is the empty   *)
(* one a first run creates (cache.py:18-25).                               *)
(***************************************************************************)
FreshInit ==
    /\ now = 0
    /\ dir = [pth \in Paths |-> 0]
    /\ inodes = [i \in Inodes |-> FreeInode]
    /\ locks = EmptyDict
    /\ task = [t \in Tasks |-> Idle]
    /\ ops = 0
    /\ crashes = 0
    /\ faults = 0

\* The arguments of _group_sizes_by_region: the region slugs as
\* _fetch_regions returns them (sorted) or the fallback's, and the sizes as
\* _fetch_sizes returns them: available sizes, each with the regions it is
\* offered in, which need not be among the available regions.
GroupRegions == {<<>>, <<"nyc1">>, <<"ams3", "nyc1">>, get_static_fallback.regions}
SizeSlugs == {"s-1vcpu-1gb", "s-2vcpu-2gb", "s-4vcpu-8gb"}
SizeRegions == {<<"nyc1">>, <<"ams3">>, <<"nyc1", "ams3">>, <<"syd1">>}
Sizes == [slug : SizeSlugs, regions : SizeRegions]
SizeLists == {<<s>> : s \in Sizes} \cup {<<s, u>> : s \in Sizes, u \in Sizes}

\* digitalocean.py:78: _group_sizes_by_region(regions_data, sizes_data)
GroupCall(t, regions, sizes) ==
    /\ CanCall(t)
    /\ SetTask(t, Return([Idle EXCEPT !.op = "_group_sizes_by_region",
                                      !.args = <<regions, sizes>>],
                         RetValue(_group_sizes_by_region(regions, sizes))))
    /\ ops' = ops + 1
    /\ UNCHANGED <<now, dir, inodes, locks, crashes, faults>>

\* The resources a fragment is built from: every combination of empty and
\* non-empty parts, with the engines in every order, and the two static
\* fallbacks.
FragmentRegions == {<<>>, <<"nyc1", "ams3">>}
FragmentInstanceTypes ==
    {EmptyDict, ("nyc1" :> <<>>), ("unknown" :> <<"standard">>),
     ("ams3" :> <<"s-2vcpu-2gb">>) @@ ("nyc1" :> <<"s-2vcpu-2gb", "s-1vcpu-1gb">>)}
FragmentDatabases ==
    {EmptyDict, ("postgres" :> <<>>),
     ("postgres" :> <<"16", "15">>) @@ ("mysql" :> <<"8.0">>),
     ("postgres" :> <<"16">>) @@ ("mysql" :> <<>>)}
FragmentKubernetes == {None, Some(<<>>), Some(<<"1.30", "1.29">>)}

\* The orders in which a dict can hold its keys
KeyOrders(d) ==
    {order \in [1..Cardinality(DOMAIN d) -> DOMAIN d] :
        \A i, j \in DOMAIN order : order[i] = order[j] => i = j}

FragmentInputs ==
    {get_static_fallback, base_get_static_fallback}
    \cup UNION {{Ordered(ProviderResources(regions, instance_types, database_types,
                                           kubernetes_versions, None), engines) :
                    engines \in KeyOrders(database_types)} :
                 regions \in FragmentRegions,
                 instance_types \in FragmentInstanceTypes,
                 database_types \in FragmentDatabases,
                 kubernetes_versions \in FragmentKubernetes}

\* generator.py:49-54: the fragment of one provider is built and merged into
\* the base schema; keys is the order of the definitions in the document
BuildCall(t, provider_name, resources) ==
    /\ CanCall(t)
    /\ LET fragment == _build_provider_schema(provider_name, resources)
       IN  SetTask(t, Return([Idle EXCEPT !.op = "_build_provider_schema",
                                         !.args = <<provider_name, resources>>],
                             RetValue([fragment |-> fragment,
                                       document |-> _merge_schemas(base_schema, <<fragment>>),
                                       keys |-> definition_keys(provider_name, resources)])))
    /\ ops' = ops + 1
    /\ UNCHANGED <<now, dir, inodes, locks, crashes, faults>>

\* The instances that are converted: every combination of empty, absent
\* and populated fields.
RoundTripInputs ==
    {ProviderResources(regions, instance_types, database_types,
                       kubernetes_versions, storage_types) :
        regions \in {<<>>, <<"fra1", "ams3">>},
        instance_types \in {EmptyDict, LiveA.instance_types},
        database_types \in {EmptyDict, LiveB.database_types},
        kubernetes_versions \in {None, Some(<<>>), Some(<<"1.30">>)},
        storage_types \in {None, Some(<<>>), Some(<<"ssd">>)}}

\* api/base.py:25-33: r.to_dict()
ToDictCall(t, r) ==
    /\ CanCall(t)
    /\ SetTask(t, Return([Idle EXCEPT !.op = "to_dict", !.args = <<r>>],
                         RetValue(to_dict(r))))
    /\ ops' = ops + 1
    /\ UNCHANGED <<now, dir, inodes, locks, crashes, faults>>

\* api/base.py:35-44: ProviderResources.from_dict(data) on the dict that the
\* to_dict call before it returned
FromDictCall(t) ==
    /\ CanCall(t)
    /\ task[t].op = "to_dict"
    /\ SetTask(t, Return([Idle EXCEPT !.op = "from_dict",
                                      !.args = <<task[t].ret.value>>],
                         RetValue(from_dict(task[t].ret.value))))
    /\ ops' = ops + 1
    /\ UNCHANGED <<now, dir, inodes, locks, crashes, faults>>

CallNext ==
    \/ \E t \in Tasks, regions \in GroupRegions, sizes \in SizeLists :
            GroupCall(t, regions, sizes)
    \/ \E t \in Tasks, provider_name \in Providers, resources \in FragmentInputs :
            BuildCall(t, provider_name, resources)
    \/ \E t \in Tasks, r \in RoundTripInputs : ToDictCall(t, r)
    \/ \E t \in Tasks : FromDictCall(t)

CallSpec == FreshInit /\ [][CallNext]_vars

(***************************************************************************)
(* generate_schema and _get_provider_resources: generator.py:24-80         *)
(***************************************************************************)
\* Mutant of UseCache: force_refresh is ignored.
UseCacheAlways(use_cache, force_refresh) == use_cache

\* Mutant of UseCache: the cache is never read.
UseCacheNever(use_cache, force_refresh) == FALSE

\* generator.py:60
UseCache(use_cache, force_refresh) == use_cache /\ ~force_refresh

\* generator.py:30-38: the call; providers is None or Some(list)
GenCall(t, providers, use_cache, force_refresh, token) ==
    /\ CanCall(t)
    /\ \A u \in Tasks : Free(u)
    /\ SetTask(t, [Idle EXCEPT
            !.op = "generate_schema", !.pc = "gen_loop",
            !.gen = [NoGen EXCEPT
                !.active = TRUE, !.use_cache = use_cache,
                !.force_refresh = force_refresh, !.token = token,
                !.api_clients = api_clients,
                !.providers = IF providers = None THEN ListOfSet(api_clients)
                              ELSE providers[1]]])
    /\ ops' = ops + 1
    /\ UNCHANGED <<now, dir, inodes, locks, crashes, faults>>

\* generator.py:30-38: the call on a generator whose api_clients holds a
\* second client; list(self.api_clients.keys()) is in insertion order
GenCallWith(t, providers, use_cache, force_refresh, token) ==
    /\ CanCall(t)
    /\ \A u \in Tasks : Free(u)
    /\ SetTask(t, [Idle EXCEPT
            !.op = "generate_schema", !.pc = "gen_loop",
            !.gen = [NoGen EXCEPT
                !.active = TRUE, !.use_cache = use_cache,
                !.force_refresh = force_refresh, !.token = token,
                !.api_clients = registered_clients,
                !.providers = IF providers = None THEN <<"digitalocean", "hetzner">>
                              ELSE providers[1]]])
    /\ ops' = ops + 1
    /\ UNCHANGED <<now, dir, inodes, locks, crashes, faults>>

\* generator.py:53-54: the document generate_schema returns
Document(gen) ==
    _merge_schemas(base_schema,
        [i \in 1..Len(gen.order) |->
            _build_provider_schema(gen.order[i], gen.provider_schemas[gen.order[i]])])

\* generator.py:40-47,54,60-63: the next requested provider; an unknown name
\* is skipped; the provider is resolved from the cache or by a fetch
GenLoop(t) ==
    /\ task[t].pc = "gen_loop"
    /\ LET rec == task[t]
           gen == rec.gen
       IN  IF gen.providers = <<>>
           THEN /\ SetTask(t, [Return(rec, RetSchema) EXCEPT !.schema = Document(gen)])
                /\ locks' = locks
           ELSE IF Head(gen.providers) \notin gen.api_clients
           THEN /\ SetTask(t, [rec EXCEPT !.gen.providers = Tail(@)])
                /\ locks' = locks
           ELSE LET call == [rec EXCEPT
                        !.provider = Head(gen.providers),
                        !.gen = [@ EXCEPT !.cached = "none", !.fetched = 0, !.wrote = 0,
                                          !.resources = NoResources]]
                IN  IF UseCache(gen.use_cache, gen.force_refresh)
                    THEN GetBegin(t, [call EXCEPT !.ttl_hours = CacheTtlHours])
                    ELSE /\ SetTask(t, [call EXCEPT !.pc = "gen_fetch",
                                                    !.gen.cached = "skipped"])
                         /\ locks' = locks
    /\ UNCHANGED <<now, dir, inodes, ops, crashes, faults>>

\* generator.py:68-69: the client is entered and fetch_resources is called;
\* with a token its first request creates the HTTP client (api/base.py:93-99,
\* digitalocean.py:38-41)
GenFetch(t) ==
    /\ task[t].pc = "gen_fetch"
    /\ SetTask(t, [task[t] EXCEPT !.pc = "gen_fetching",
                                  !.gen = [@ EXCEPT !.fetched = @ + 1,
                                                    !.client = task[t].gen.token
                                                        \/ task[t].provider # "digitalocean"]])
    /\ UNCHANGED <<now, dir, inodes, locks, ops, crashes, faults>>

\* Mutant of GenFetched: the fetched resources are returned without being
\* cached.
GenFetchedNoWrite(t, failed) ==
    /\ task[t].pc = "gen_fetching"
    /\ task[t].provider = "digitalocean"
    /\ SetTask(t, [task[t] EXCEPT
            !.pc = "gen_exit",
            !.gen.resources = fetch_resources(task[t].gen.token, failed)])
    /\ UNCHANGED <<now, dir, inodes, locks, ops, crashes, faults>>

\* generator.py:69-72: fetch_resources returns and cache_resources is called
GenFetched(t, failed) ==
    /\ task[t].pc = "gen_fetching"
    /\ task[t].provider = "digitalocean"
    /\ LET resources == fetch_resources(task[t].gen.token, failed)
       IN  PutBegin(t, [task[t] EXCEPT !.gen = [@ EXCEPT !.resources = resources,
                                                         !.wrote = @ + 1]],
                    resources)
    /\ UNCHANGED <<now, dir, inodes, ops, crashes, faults>>

\* generator.py:69-72: fetch_resources of the other client returns
GenFetchedOther(t, resources) ==
    /\ task[t].pc = "gen_fetching"
    /\ task[t].provider # "digitalocean"
    /\ PutBegin(t, [task[t] EXCEPT !.gen = [@ EXCEPT !.resources = resources,
                                                     !.wrote = @ + 1]],
                resources)
    /\ UNCHANGED <<now, dir, inodes, ops, crashes, faults>>

\* Mutant of GenFetchRaised: no except clause, the exception leaves
\* generate_schema.
GenFetchPropagates(t) ==
    /\ task[t].pc = "gen_fetching"
    /\ task[t].provider # "digitalocean"
    /\ SetTask(t, Return([task[t] EXCEPT !.gen.client = FALSE], RetRaised))
    /\ UNCHANGED <<now, dir, inodes, locks, ops, crashes, faults>>

\* generator.py:68-69,76-80: fetch_resources of the other client raises; the
\* exception leaves the client's scope, which closes the HTTP client
\* (api/base.py:137-144), and is answered with the client's static fallback
GenFetchRaised(t) ==
    /\ task[t].pc = "gen_fetching"
    /\ task[t].provider # "digitalocean"
    /\ SetTask(t, Built([task[t] EXCEPT !.gen.client = FALSE],
                        client_static_fallback(task[t].provider)))
    /\ UNCHANGED <<now, dir, inodes, locks, ops, crashes, faults>>

\* Mutant of GenExit: the resources are returned without leaving a scope
\* of the client, which stays open.
GenExitOpen(t) ==
    /\ task[t].pc = "gen_exit"
    /\ SetTask(t, Built(task[t], task[t].gen.resources))
    /\ UNCHANGED <<now, dir, inodes, locks, ops, crashes, faults>>

\* generator.py:68,74: return resources leaves the client's scope, which
\* closes the HTTP client (api/base.py:127-144)
GenExit(t) ==
    /\ task[t].pc = "gen_exit"
    /\ SetTask(t, Built([task[t] EXCEPT !.gen.client = FALSE], task[t].gen.resources))
    /\ UNCHANGED <<now, dir, inodes, locks, ops, crashes, faults>>

(***************************************************************************)
(* The environment: the process is killed (the files stay, the coroutines, *)
(* their open files and the lock table are gone), and time passes.         *)
(***************************************************************************)
Crash ==
    /\ crashes < MaxCrashes
    /\ \E t \in Tasks : task[t].pc \notin {"idle", "done"}
    /\ crashes' = crashes + 1
    /\ task' = [t \in Tasks |-> Idle]
    /\ locks' = EmptyDict
    /\ inodes' = Collect(dir, task', inodes)
    /\ UNCHANGED <<now, dir, ops, faults>>

Tick ==
    /\ now + TickHours <= MaxTime
    /\ now' = now + TickHours
    /\ UNCHANGED <<dir, inodes, locks, task, ops, crashes, faults>>

Next ==
    \/ \E t \in Tasks, p \in Providers, ttl \in TtlInputs : GetCall(t, p, ttl)
    \/ \E t \in Tasks : GetAcquire(t)
    \/ \E t \in Tasks : GetOpen(t)
    \/ \E t \in Tasks : GetRead(t)
    \/ \E t \in Tasks : GetEval(t)
    \/ \E t \in Tasks, p \in Providers, r \in ResourceInputs : PutCall(t, p, r)
    \/ \E t \in Tasks : PutAcquire(t)
    \/ \E t \in Tasks : PutOpen(t)
    \/ \E t \in Tasks : PutWrite(t)
    \/ \E t \in Tasks : PutRename(t)
    \/ \E t \in Tasks : PutFault(t)
    \/ \E t \in Tasks, p \in Providers \cup {""} : ClearCache(t, p)
    \/ \E t \in Tasks : InfoCall(t)
    \/ \E t \in Tasks, p \in Providers : InfoOpen(t, p)
    \/ \E t \in Tasks : InfoRead(t)
    \/ \E t \in Tasks : InfoEval(t)
    \/ \E t \in Tasks : InfoReturn(t)
    \/ Crash
    \/ Tick

Spec == Init /\ [][Next]_vars

(***************************************************************************)
(* Writers and the pruning of old cache files.                             *)
(***************************************************************************)
PruneNext ==
    \/ \E t \in Tasks, p \in Providers, r \in ResourceInputs : PutCall(t, p, r)
    \/ \E t \in Tasks : PutAcquire(t)
    \/ \E t \in Tasks : PutOpen(t)
    \/ \E t \in Tasks : PutWrite(t)
    \/ \E t \in Tasks : PutRename(t)
    \/ \E t \in Tasks, max_age_days \in AgeInputs : CleanupOldCache(t, max_age_days)
    \/ Tick

PruneSpec == Init /\ [][PruneNext]_vars

(***************************************************************************)
(* The store as the cache's own operations make it: from a directory that *)
(* holds nothing but entries cache_resources wrote, any sequence of reads, *)
(* writes, clears, prunes and crashes.                                     *)
(***************************************************************************)
StoreInit == Init /\ \A p \in Providers : \A d \in Target(p) : IsEntry(d, p)

StoreNext ==
    \/ \E t \in Tasks, p \in Providers, ttl \in TtlInputs : GetCall(t, p, ttl)
    \/ \E t \in Tasks : GetAcquire(t)
    \/ \E t \in Tasks : GetOpen(t)
    \/ \E t \in Tasks : GetRead(t)
    \/ \E t \in Tasks : GetEval(t)
    \/ \E t \in Tasks, p \in Providers, r \in ResourceInputs : PutCall(t, p, r)
    \/ \E t \in Tasks : PutAcquire(t)
    \/ \E t \in Tasks : PutOpen(t)
    \/ \E t \in Tasks : PutWrite(t)
    \/ \E t \in Tasks : PutRename(t)
    \/ \E t \in Tasks : PutFault(t)
    \/ \E t \in Tasks, p \in Providers \cup {""} : ClearCache(t, p)
    \/ \E t \in Tasks, max_age_days \in AgeInputs : CleanupOldCache(t, max_age_days)
    \/ Crash
    \/ Tick

StoreSpec == StoreInit /\ [][StoreNext]_vars

(***************************************************************************)
(* The lock of one provider under contention: reads and writes of the      *)
(* digitalocean entry by the coroutines of one event loop, over every      *)
(* initial cache file.  The event loop runs every coroutine that is ready  *)
(* and every file operation comes back, so each coroutine that can take a  *)
(* step eventually takes one; calls, I/O errors and time are not forced.   *)
(***************************************************************************)
LockNext ==
    \/ \E t \in Tasks, ttl \in TtlInputs : GetCall(t, "digitalocean", ttl)
    \/ \E t \in Tasks : GetAcquire(t)
    \/ \E t \in Tasks : GetOpen(t)
    \/ \E t \in Tasks : GetRead(t)
    \/ \E t \in Tasks : GetEval(t)
    \/ \E t \in Tasks, r \in ResourceInputs : PutCall(t, "digitalocean", r)
    \/ \E t \in Tasks : PutAcquire(t)
    \/ \E t \in Tasks : PutOpen(t)
    \/ \E t \in Tasks : PutWrite(t)
    \/ \E t \in Tasks : PutRename(t)
    \/ \E t \in Tasks : PutFault(t)
    \/ Tick

LockSpec == Init /\ [][LockNext]_vars

\* The steps the event loop takes for coroutine t once it is scheduled
LockProgress(t) ==
    \/ GetAcquire(t) \/ GetOpen(t) \/ GetRead(t) \/ GetEval(t)
    \/ PutAcquire(t) \/ PutOpen(t) \/ PutWrite(t) \/ PutRename(t)

FairLockSpec == LockSpec /\ \A t \in Tasks : WF_vars(LockProgress(t))

(***************************************************************************)
(* The generator: one generate_schema call at a time over the cache        *)
(* directory, as the command line runs it (cli/schema.py:36-56).           *)
(***************************************************************************)
ProviderInputs == {None, Some(<<"hetzner", "digitalocean">>), Some(<<"hetzner">>)}
FetchOutcomes == {{}, {"sizes"}, {"regions", "databases"}}

GenNext ==
    \/ \E t \in Tasks, providers \in ProviderInputs,
          use_cache \in BOOLEAN, force_refresh \in BOOLEAN, token \in BOOLEAN :
            GenCall(t, providers, use_cache, force_refresh, token)
    \/ \E t \in Tasks : GenLoop(t)
    \/ \E t \in Tasks : GetOpen(t)
    \/ \E t \in Tasks : GetRead(t)
    \/ \E t \in Tasks : GetEval(t)
    \/ \E t \in Tasks : GenFetch(t)
    \/ \E t \in Tasks, failed \in FetchOutcomes : GenFetched(t, failed)
    \/ \E t \in Tasks : PutOpen(t)
    \/ \E t \in Tasks : PutWrite(t)
    \/ \E t \in Tasks : PutRename(t)
    \/ \E t \in Tasks : PutFault(t)
    \/ \E t \in Tasks : GenExit(t)
    \/ Tick

GenSpec == Init /\ [][GenNext]_vars

\* The generator on the empty cache directory of a first run.
FreshSpec == FreshInit /\ [][GenNext]_vars

(***************************************************************************)
(* Reads of a cache file that earlier runs or other programs left in any   *)
(* state: get_cached_resources on its own and inside generate_schema.      *)
(***************************************************************************)
\* What digitalocean's cache file holds at the start: text that is no JSON,
\* JSON that is no object, an object without a field or with a field of the
\* wrong type, or a valid entry
ReadDocs(p) ==
    {{Unparseable}, {NonObject}, {MissingTimestamp(p)}, {MissingResources(p)},
     {TimestampNotString(p)}, {ResourcesNotObject(p)}, {CacheData(0, p, LiveA)}}

ReadInit ==
    /\ now = 0
    /\ \E doc \in ReadDocs("digitalocean") :
          InitFiles([p \in Providers |-> IF p = "digitalocean" THEN doc ELSE Absent])
    /\ locks = EmptyDict
    /\ task = [t \in Tasks |-> Idle]
    /\ ops = 0
    /\ crashes = 0
    /\ faults = 0

ReadNext ==
    \/ \E t \in Tasks, ttl \in TtlInputs : GetCall(t, "digitalocean", ttl)
    \/ \E t \in Tasks, use_cache \in BOOLEAN, token \in BOOLEAN :
            GenCall(t, None, use_cache, FALSE, token)
    \/ \E t \in Tasks : GenLoop(t)
    \/ \E t \in Tasks : GetAcquire(t)
    \/ \E t \in Tasks : GetOpen(t)
    \/ \E t \in Tasks : GetRead(t)
    \/ \E t \in Tasks : GetEval(t)
    \/ \E t \in Tasks : GenFetch(t)
    \/ \E t \in Tasks, failed \in FetchOutcomes : GenFetched(t, failed)
    \/ \E t \in Tasks : PutAcquire(t)
    \/ \E t \in Tasks : PutOpen(t)
    \/ \E t \in Tasks : PutWrite(t)
    \/ \E t \in Tasks : PutRename(t)
    \/ \E t \in Tasks : GenExit(t)
    \/ Tick

ReadSpec == ReadInit /\ [][ReadNext]_vars

(***************************************************************************)
(* A forced refresh over a cache that holds a valid entry with live data:  *)
(* the requests of the fetch all succeed or all fail.                      *)
(***************************************************************************)
RefreshInit == Init /\ Target("digitalocean") = {CacheData(0, "digitalocean", LiveA)}

RefreshOutcomes == {{}, Categories}

RefreshNext ==
    \/ \E t \in Tasks, providers \in ProviderInputs, use_cache \in BOOLEAN,
          token \in BOOLEAN : GenCall(t, providers, use_cache, TRUE, token)
    \/ \E t \in Tasks : GenLoop(t)
    \/ \E t \in Tasks : GenFetch(t)
    \/ \E t \in Tasks, failed \in RefreshOutcomes : GenFetched(t, failed)
    \/ \E t \in Tasks : PutOpen(t)
    \/ \E t \in Tasks : PutWrite(t)
    \/ \E t \in Tasks : PutRename(t)
    \/ \E t \in Tasks : GenExit(t)
    \/ Tick

RefreshSpec == RefreshInit /\ [][RefreshNext]_vars

(***************************************************************************)
(* The generator with a second client in its table.                        *)
(***************************************************************************)
ClientNext ==
    \/ \E t \in Tasks, providers \in {None, Some(<<"hetzner", "digitalocean">>)},
          use_cache \in BOOLEAN, force_refresh \in BOOLEAN, token \in BOOLEAN :
            GenCallWith(t, providers, use_cache, force_refresh, token)
    \/ \E t \in Tasks : GenLoop(t)
    \/ \E t \in Tasks : GetOpen(t)
    \/ \E t \in Tasks : GetRead(t)
    \/ \E t \in Tasks : GetEval(t)
    \/ \E t \in Tasks : GenFetch(t)
    \/ \E t \in Tasks : GenFetched(t, {})
    \/ \E t \in Tasks : GenFetchedOther(t, LiveB)
    \/ \E t \in Tasks : GenFetchRaised(t)
    \/ \E t \in Tasks : PutOpen(t)
    \/ \E t \in Tasks : PutWrite(t)
    \/ \E t \in Tasks : PutRename(t)
    \/ \E t \in Tasks : GenExit(t)
    \/ Tick

ClientSpec == Init /\ [][ClientNext]_vars

(***************************************************************************)
(* The life of the HTTP client (api/base.py:50-52,93-99,127-144) over the  *)
(* calls of one generator, on every way out of the scoped fetch            *)
(* (generator.py:67-80).                                                   *)
(***************************************************************************)
\* cache.py:81-82, generator.py:68-80: json.dumps raises TypeError for
\* resources of the other client that hold a value JSON has no form for.
\* The temp file has been opened and stays empty; the exception is no
\* OSError, so it leaves cache_resources (the lock is released), leaves the
\* client's scope, which closes the HTTP client, and is answered with the
\* client's static fallback
PutDumpsRaised(t) ==
    /\ task[t].pc = "put_write" /\ task[t].pos = 1
    /\ task[t].gen.active /\ task[t].provider # "digitalocean"
    /\ SetTask(t, Built([task[t] EXCEPT !.gen.client = FALSE, !.f = 0, !.pos = 0],
                        client_static_fallback(task[t].provider)))
    /\ inodes' = Collect(dir, task', inodes)
    /\ locks' = Release(_get_lock(task[t].provider))
    /\ UNCHANGED <<now, dir, ops, crashes, faults>>

ConnNext ==
    \/ \E t \in Tasks, providers \in {None, Some(<<"hetzner">>)},
          use_cache \in BOOLEAN, force_refresh \in BOOLEAN, token \in BOOLEAN :
            GenCallWith(t, providers, use_cache, force_refresh, token)
    \/ \E t \in Tasks : GenLoop(t)
    \/ \E t \in Tasks : GetOpen(t)
    \/ \E t \in Tasks : GetRead(t)
    \/ \E t \in Tasks : GetEval(t)
    \/ \E t \in Tasks : GenFetch(t)
    \/ \E t \in Tasks : GenFetched(t, {})
    \/ \E t \in Tasks : GenFetchedOther(t, LiveB)
    \/ \E t \in Tasks : GenFetchRaised(t)
    \/ \E t \in Tasks : PutOpen(t)
    \/ \E t \in Tasks : PutWrite(t)
    \/ \E t \in Tasks : PutRename(t)
    \/ \E t \in Tasks : PutFault(t)
    \/ \E t \in Tasks : PutDumpsRaised(t)
    \/ \E t \in Tasks : GenExit(t)
    \/ Tick

ConnSpec == FreshInit /\ [][ConnNext]_vars

(***************************************************************************)
(* Properties of the cache.                                                *)
(***************************************************************************)
Reading(t) == task[t].pc \in {"get_read", "get_eval", "info_read", "info_eval"}
Writing(t) == task[t].pc \in {"put_open", "put_write", "put_rename"}
Critical(t) == task[t].pc \in {"get_open", "get_read", "get_eval"} \/ Writing(t)
Waiting(t) == task[t].pc \in {"get_wait", "put_wait"}
TempFile(p) == <<p, "tmp">>
Age(d) == now - Field(d, "timestamp")

\* A document that cache_resources never leaves under the target path: a
\* proper prefix of an entry, or one with a hole.
Whole(d, p) == {d} \in InitDocs(p) \/ IsEntry(d, p)

\* C1: crash atomicity. Whatever step is taken (a step of the writer, of
\* another coroutine, or the crash of the process), the target cache file
\* of a provider is afterwards absent, or what it was, or the complete new
\* entry of a writer that is between its temp-file open and its rename.
C1_CrashAtomicity ==
    [][\A p \in Providers :
         Target(p)' \in {Target(p), Absent}
            \cup {{task[t].cache_data} : t \in {u \in Tasks : Writing(u) /\ task[u].provider = p}}
      ]_vars

\* C1 witness: the process was killed between the temp-file write and the
\* rename: the temp file is left behind and the target holds a whole entry.
C1_Witness ==
    /\ crashes = 1 /\ faults = 0
    /\ \E p \in Providers :
          /\ exists(TempFile(p))
          /\ \E d \in Target(p) : IsEntry(d, p)

\* C2: a reader (get_cached_resources, get_cache_info) that runs while a
\* writer of the same provider is active has opened, and has read, a whole
\* document: an entry as a cache_resources call wrote it or a document that
\* was in the directory from the start, never a partly written one.
C2_ReaderSeesWhole ==
    \A t \in Tasks :
        /\ task[t].pc \in {"get_read", "info_read"} =>
              Whole(inodes[task[t].f].data, task[t].provider)
        /\ task[t].pc \in {"get_eval", "info_eval"} =>
              Whole(task[t].content, task[t].provider)

\* C2 witness: a reader holds the old entry while a writer of the same
\* provider has already written its temp file.
C2_Witness ==
    \E t, u \in Tasks :
        /\ task[t].pc \in {"get_eval", "info_eval"}
        /\ task[u].pc \in {"put_write", "put_rename"}
        /\ task[u].provider = task[t].provider
        /\ IsEntry(task[t].content, task[t].provider)
        /\ task[t].content # task[u].cache_data

\* C3: per-key mutual exclusion. Two writers of one provider are never both
\* between the temp-file open and the rename; and when two calls for the same
\* provider have both completed (no I/O error, no crash), the cache file
\* holds exactly the entry of one of them.
C3_WritersExclusive ==
    /\ \A t, u \in Tasks :
          t # u /\ Writing(t) /\ Writing(u) => task[t].provider # task[u].provider
    /\ \A p \in Providers :
          (/\ faults = 0
           /\ \A t \in Tasks : /\ task[t].pc = "done"
                                /\ task[t].op = "cache_resources"
                                /\ task[t].provider = p)
          => Target(p) \in {{task[t].cache_data} : t \in Tasks}

\* C3 witness: two calls for the same provider with different entries have
\* both completed.
C3_Witness ==
    /\ faults = 0
    /\ \A t \in Tasks : task[t].pc = "done" /\ task[t].op = "cache_resources"
    /\ \A t, u \in Tasks : task[t].provider = task[u].provider
    /\ \E t, u \in Tasks : task[t].cache_data # task[u].cache_data

\* C4: no cross-provider blocking. A call that waits for its provider's lock
\* can take it as soon as no other call for the same provider is in its
\* critical section, whatever calls for other providers are doing.
C4_NoCrossBlocking ==
    \A t \in Tasks :
        (/\ Waiting(t)
         /\ \A u \in Tasks \ {t} : Critical(u) => task[u].provider # task[t].provider)
        => ENABLED (GetAcquire(t) \/ PutAcquire(t))

\* C4 witness: calls for two different providers are in their critical
\* sections at the same time.
C4_Witness ==
    \E t, u \in Tasks :
        /\ Critical(t) /\ Critical(u)
        /\ task[t].provider # task[u].provider

\* The resources a cache_resources call stored in document d
StoredResources(d) ==
    {r \in ResourceInputs : to_dict(r) = Field(d, "resources")}

\* C5: TTL correctness. When get_cached_resources evaluates an entry written
\* at time T with TTL H, it returns the resources that were stored if the
\* read happens strictly before T+H, and absent if strictly after T+H.
C5_TtlCorrect ==
    [][\A t \in Tasks :
         (/\ task[t].pc = "get_eval" /\ task'[t].pc = "done"
          /\ IsEntry(task[t].content, task[t].provider))
         => LET T == Field(task[t].content, "timestamp")
                H == task[t].ttl_hours
            IN  /\ now < T + H =>
                      \E r \in StoredResources(task[t].content) :
                          task'[t].ret = RetResources(r)
                /\ now > T + H => task'[t].ret = RetAbsent
      ]_vars

\* C5 witness: a read has returned the stored resources of an entry whose age
\* is above zero and below the TTL.
C5_Witness ==
    \E t \in Tasks, p \in Providers :
        /\ task[t].pc = "done" /\ task[t].op = "get_cached_resources"
        /\ task[t].provider = p
        /\ \E d \in Target(p) :
              /\ IsEntry(d, p)
              /\ Age(d) > 0 /\ Age(d) < task[t].ttl_hours
              /\ task[t].ret = RetResources(from_dict(Field(d, "resources")))

\* C6: a get_cached_resources call never changes the cache store: every
\* step of the call leaves every file of the cache directory as it was. In
\* particular a read of an entry older than the TTL, of an unparseable file
\* or of a file without a required field returns absent and the file stays.
C6_GetLeavesStore ==
    [][\A t \in Tasks :
         (task'[t] # task[t] /\ task'[t].op = "get_cached_resources")
         => /\ \A pth \in Paths : Stored(dir', inodes', pth) = Stored(dir, inodes, pth)
            /\ (/\ task[t].pc = "get_eval"
                /\ LET c == task[t].content
                   IN  \/ ~IsJson(c)
                       \/ /\ IsObject(c)
                          /\ \/ ~HasKey(c, "timestamp")
                             \/ ~HasKey(c, "resources")
                             \/ Age(c) > task[t].ttl_hours)
               => task'[t].ret = RetAbsent
      ]_vars

\* C6 witness: a read has returned absent for an entry older than the TTL,
\* and the entry is still in the cache file.
C6_Witness ==
    \E t \in Tasks, p \in Providers :
        /\ task[t].pc = "done" /\ task[t].op = "get_cached_resources"
        /\ task[t].provider = p /\ task[t].ret = RetAbsent
        /\ \E d \in Target(p) : IsEntry(d, p) /\ Age(d) > task[t].ttl_hours
        /\ ops = 1

\* C7: corruption is swallowed at the read boundary. A get_cached_resources
\* that has read a file which fails to parse, or which parses to an object
\* without "timestamp" or without "resources", returns absent; it does not
\* raise.
C7_CorruptionSwallowed ==
    [][\A t \in Tasks :
         (/\ task[t].pc = "get_eval" /\ task'[t].pc = "done"
          /\ LET c == task[t].content
             IN  \/ ~IsJson(c)
                 \/ IsObject(c) /\ ~(HasKey(c, "timestamp") /\ HasKey(c, "resources")))
         => task'[t].ret = RetAbsent
      ]_vars

\* C7 witness: reads of a file without "timestamp" have returned absent.
C7_Witness ==
    \E t \in Tasks, p \in Providers :
        /\ task[t].pc = "done" /\ task[t].op = "get_cached_resources"
        /\ task[t].provider = p /\ task[t].ret = RetAbsent
        /\ Target(p) = {MissingTimestamp(p)}
        /\ now = 0

\* C8: get_cache_info reports one record per cache file. When it has read a
\* cache file, the call goes on with the next file (it does not raise); a
\* file that is unparseable or structurally invalid gets the "corrupted"
\* record; a valid entry that is still in place gets its timestamp, age,
\* size, region count and the instance types summed over all keys.
C8_InfoReportsEveryFile ==
    [][\A t \in Tasks :
         (task[t].pc = "info_eval" /\ task'[t].pc \in {"info_loop", "done"})
         => LET c == task[t].content
                p == task[t].provider
            IN  /\ task'[t].pc = "info_loop"
                /\ p \in DOMAIN task'[t].cache_info
                /\ \A q \in DOMAIN task[t].cache_info \ {p} :
                      task'[t].cache_info[q] = task[t].cache_info[q]
                /\ ~(IsObject(c) /\ HasKey(c, "timestamp") /\ HasKey(c, "resources"))
                      => task'[t].cache_info[p] = Corrupted
                /\ (IsEntry(c, p) /\ Target(p) = {c})
                      => \E r \in StoredResources(c) :
                            task'[t].cache_info[p] =
                                [timestamp |-> Field(c, "timestamp"),
                                 age_hours |-> Age(c),
                                 file_size |-> Len(c),
                                 regions_count |-> Len(r.regions),
                                 instance_types_count |-> SumLen(r.instance_types)]
      ]_vars

\* C8: a reachable state in which get_cache_info has read the file whose
\* top-level JSON value is not an object.
C8_Witness ==
    \E t \in Tasks : task[t].pc = "info_eval" /\ task[t].content = NonObject

\* The resources a generate_schema call can find in an entry
GenResources ==
    {LiveA} \cup {fetch_resources(token, failed) :
                    token \in BOOLEAN, failed \in SUBSET Categories}

InGet(t) == task[t].pc \in {"get_wait", "get_open", "get_read", "get_eval"}

\* C9: with use_cache and without force_refresh, a provider whose entry is
\* present, valid and younger than the client's TTL is resolved from the
\* cache alone: the read is a hit, the resources of the entry are the ones
\* used, the store stays as it is, and after a hit fetch_resources has not
\* been called, the HTTP client has not been created and cache_resources has
\* not been called. fetch_resources is called only after the cache read
\* returned absent.
C9_CacheHitNoFetch ==
    [][\A t \in Tasks :
         LET g == task[t].gen
             h == task'[t].gen
             c == task[t].content
             p == task[t].provider
         IN  /\ (/\ g.active /\ task[t].pc = "get_eval" /\ task'[t].pc # "get_eval"
                 /\ IsEntry(c, p) /\ Age(c) < CacheTtlHours)
                => /\ h.cached = "hit"
                   /\ task'[t].pc = "gen_loop"
                   /\ \E r \in GenResources :
                         /\ to_dict(r) = Field(c, "resources")
                         /\ h.provider_schemas[p] = r
                   /\ \A pth \in Paths :
                         Stored(dir', inodes', pth) = Stored(dir, inodes, pth)
             /\ (h.use_cache /\ ~h.force_refresh /\ h.cached = "hit")
                => h.fetched = 0 /\ h.wrote = 0 /\ ~h.client
             /\ (h.use_cache /\ ~h.force_refresh /\ h.fetched > 0)
                => h.cached = "absent"
      ]_vars

\* C9 witness: a generate_schema call with use_cache has returned after
\* resolving digitalocean from an entry that was not new.
C9_Witness ==
    \E t \in Tasks :
        /\ task[t].pc = "done" /\ task[t].ret = RetSchema
        /\ task[t].gen.use_cache /\ ~task[t].gen.force_refresh
        /\ task[t].gen.cached = "hit"
        /\ "digitalocean" \in DOMAIN task[t].gen.provider_schemas
        /\ now > 0

\* C10: with force_refresh (use_cache set or not) the cache is not consulted:
\* get_cached_resources is never running and no outcome of a cache read is
\* recorded; every resolved provider was resolved by one fetch_resources
\* call; and when cache_resources has returned without an I/O error, the
\* provider's cache file holds the entry made of the fetched resources.
C10_ForceRefreshFetches ==
    \A t \in Tasks :
        LET g == task[t].gen
            p == task[t].provider
        IN  g.force_refresh =>
              /\ ~InGet(t)
              /\ g.cached \in {"none", "skipped"}
              /\ g.resources # NoResources => g.fetched = 1 /\ g.wrote = 1
              /\ (task[t].pc = "gen_exit" /\ faults = 0) =>
                    /\ Target(p) = {task[t].cache_data}
                    /\ \E T \in 0..now :
                          task[t].cache_data = CacheData(T, p, g.resources)

\* C10 witness: a forced refresh has fetched and is replacing an entry that
\* is valid and younger than the TTL.
C10_Witness ==
    \E t \in Tasks :
        /\ task[t].gen.force_refresh /\ task[t].gen.use_cache
        /\ task[t].pc = "put_rename"
        /\ \E d \in Target(task[t].provider) :
              /\ IsEntry(d, task[t].provider)
              /\ Age(d) < CacheTtlHours
              /\ d # task[t].cache_data

\* C11: with use_cache = false and force_refresh = false generate_schema
\* neither reads nor writes the cache: get_cached_resources is never running
\* for the call, and no step of the call changes what a provider's cache
\* file holds, so the store after the call is the store before it.
C11_NoCacheLeavesStore ==
    [][\A t \in Tasks :
         (/\ task[t].gen.active
          /\ ~task[t].gen.use_cache /\ ~task[t].gen.force_refresh
          /\ task'[t] # task[t])
         => /\ ~InGet(t)
            /\ \A p \in Providers : Target(p)' = Target(p)
      ]_vars

\* C11: a reachable state in which a call with use_cache = false and
\* force_refresh = false has fetched and cache_resources has returned.
C11_Witness ==
    \E t \in Tasks :
        /\ task[t].gen.active /\ task[t].pc = "gen_exit"
        /\ ~task[t].gen.use_cache /\ ~task[t].gen.force_refresh
        /\ task[t].gen.fetched = 1 /\ task[t].gen.wrote = 1

\* C13: a failure to write or rename the cache file is not propagated. The
\* step in which cache_resources meets the OSError returns normally to
\* _get_provider_resources with the fetched resources untouched; the
\* provider's fragment is then built from exactly these resources; and a
\* generate_schema call that wrote (or tried to) returns its document.
C13_WriteFailureNotFatal ==
    [][\A t \in Tasks :
         LET g == task[t].gen
             h == task'[t].gen
         IN  /\ (g.active /\ Writing(t) /\ faults' = faults + 1)
                => /\ task'[t].pc = "gen_exit"
                   /\ h.resources = g.resources /\ h.active
             /\ (g.active /\ task[t].pc = "gen_exit" /\ task'[t] # task[t])
                => /\ task'[t].pc = "gen_loop"
                   /\ g.resources # NoResources
                   /\ h.provider_schemas[task[t].provider] = g.resources
             /\ (task'[t].pc = "done" /\ task'[t].op = "generate_schema" /\ h.wrote = 1)
                => task'[t].ret = RetSchema
      ]_vars

\* C13 witness: generate_schema has returned its document although the
\* write of the entry failed: nothing is in digitalocean's cache file, and
\* the fragment holds the live resources that were fetched.
C13_Witness ==
    \E t \in Tasks :
        /\ task[t].pc = "done" /\ task[t].ret = RetSchema
        /\ faults = 1 /\ ops = 1
        /\ task[t].gen.wrote = 1
        /\ Target("digitalocean") = Absent
        /\ "digitalocean" \in DOMAIN task[t].gen.provider_schemas
        /\ task[t].gen.provider_schemas["digitalocean"] = LiveA

\* C14: a requested provider name that has no client in the generator's
\* table is surfaced as an error: when the loop of generate_schema comes to
\* such a name, the call ends by raising to its caller.
C14_UnknownProviderRaises ==
    [][\A t \in Tasks :
         (/\ task[t].gen.active /\ task[t].pc = "gen_loop"
          /\ task[t].gen.providers # <<>>
          /\ Head(task[t].gen.providers) \notin api_clients
          /\ task'[t] # task[t])
         => task'[t].pc = "done" /\ task'[t].ret = RetRaised
      ]_vars

\* C14: a reachable state in which the loop of generate_schema is at a
\* requested name that has no client.
C14_Witness ==
    \E t \in Tasks :
        /\ task[t].gen.active /\ task[t].pc = "gen_loop"
        /\ task[t].gen.providers # <<>>
        /\ Head(task[t].gen.providers) \notin api_clients

\* C15: generate_schema returns a document only if at least one requested
\* provider was resolved (otherwise it reports a failure), and every document
\* it returns has a definitions section and a top-level allOf list.
C15_TotalFailureSurfaced ==
    \A t \in Tasks :
        (task[t].pc = "done" /\ task[t].op = "generate_schema"
         /\ task[t].ret = RetSchema)
        => /\ task[t].gen.order # <<>>
           /\ "definitions" \in DOMAIN task[t].schema
           /\ "allOf" \in DOMAIN task[t].schema
           /\ task[t].schema["allOf"] # <<>>

\* C15: a reachable state in which generate_schema has returned although no
\* requested provider was resolved.
C15_Witness ==
    \E t \in Tasks :
        /\ task[t].pc = "done" /\ task[t].op = "generate_schema"
        /\ task[t].gen.order = <<>> /\ task[t].ret.kind # "raised"

\* C12: when fetch_resources of a client raises, _get_provider_resources
\* returns that client's static fallback instead of raising: the step that
\* ends the fetch without a result leaves generate_schema running, with the
\* HTTP client closed, the fallback as the provider's resources, the
\* fragments of the providers resolved before untouched and the remaining
\* requested providers still to come. A generate_schema call that fetched
\* ends with a document that has one rule for every resolved provider.
C12_FetchFailureFallsBack ==
    [][\A t \in Tasks :
         LET g == task[t].gen
             h == task'[t].gen
             p == task[t].provider
         IN  /\ (/\ g.active /\ task[t].pc = "gen_fetching"
                 /\ task'[t].pc \notin {"gen_fetching", "put_open", "put_wait"})
                => /\ task'[t].pc = "gen_loop" /\ h.active
                   /\ ~h.client
                   /\ h.provider_schemas[p] = client_static_fallback(p)
                   /\ \A q \in DOMAIN g.provider_schemas \ {p} :
                         h.provider_schemas[q] = g.provider_schemas[q]
                   /\ h.providers = Tail(g.providers)
             /\ (g.active /\ g.fetched > 0 /\ task'[t].pc = "done")
                => /\ task'[t].ret = RetSchema
                   /\ Len(task'[t].schema["allOf"]) = Cardinality(DOMAIN g.provider_schemas)
                   /\ \A i \in 1..Len(g.order) :
                         task'[t].schema["allOf"][i] =
                             _build_provider_schema(g.order[i],
                                 g.provider_schemas[g.order[i]]).conditional
      ]_vars

\* C12 witness: generate_schema has returned a document after the fetch of
\* hetzner raised: hetzner's fragment is made of its static fallback, and
\* digitalocean, requested after it, has its fragment of live resources.
C12_Witness ==
    \E t \in Tasks :
        /\ task[t].pc = "done" /\ task[t].ret = RetSchema
        /\ task[t].gen.order = <<"hetzner", "digitalocean">>
        /\ task[t].gen.provider_schemas["hetzner"] = base_get_static_fallback
        /\ task[t].gen.provider_schemas["digitalocean"] = LiveA
        /\ Len(task[t].schema["allOf"]) = 2

\* The _request_with_retry calls of the running and finished fetches
Requests ==
    {task[t].fetch.req[c] :
        t \in {u \in Tasks : task[u].fetch.req # EmptyDict}, c \in Categories}

\* C16: without DIGITALOCEAN_TOKEN fetch_resources sends no request at all
\* (no request is started, the HTTP client is not created), does not raise
\* and returns exactly the static fallback.
C16_NoTokenNoNetwork ==
    \A t \in Tasks :
        (task[t].op = "fetch_resources" /\ ~task[t].fetch.token)
        => /\ task[t].pc = "done"
           /\ task[t].ret = RetResources(get_static_fallback)
           /\ task[t].fetch.req = EmptyDict
           /\ ~task[t].fetch.client

\* C16 witness: a fetch_resources call without the token has returned.
C16_Witness ==
    \E t \in Tasks :
        /\ task[t].op = "fetch_resources" /\ task[t].pc = "done"
        /\ ~task[t].fetch.token
        /\ task[t].ret.kind = "resources"

\* C17: a response with an error status other than 429 ends
\* _request_with_retry at once: the step in which it arrives raises, without
\* a sleep, whatever the attempt; and after the raise nothing more is sent.
C17_HardErrorAborts ==
    [][\A t \in Tasks, c \in Categories :
         (task[t].pc = "fetch_gather" /\ task'[t].op = "fetch_resources")
         => LET r == task[t].fetch.req[c]
                n == task'[t].fetch.req[c]
            IN  /\ (r.pc = "request" /\ n # r /\ n.last = "error")
                   => /\ n.pc = "raised"
                      /\ n.sent = r.sent + 1
                      /\ n.slept = r.slept
                /\ r.pc = "raised" => n = r
      ]_vars

\* C17 witness: one request was aborted by an error status at its first
\* attempt and another at its second, each with attempts left.
C17_Witness ==
    \E r, q \in Requests :
        /\ r.pc = "raised" /\ r.last = "error" /\ r.sent = 1 /\ r.slept = <<>>
        /\ q.pc = "raised" /\ q.last = "error" /\ q.sent = 2 /\ q.slept = <<1>>

\* C18: _request_with_retry sends at most max_retries requests whatever the
\* outcomes; it returns a response only from an attempt that succeeded; it
\* raises only after a hard error or when max_retries attempts have failed
\* with 429 or a network error; and it always terminates: every running
\* fetch comes to its end.
C18_RetryBounded ==
    /\ [](\A r \in Requests :
            /\ r.sent <= max_retries
            /\ r.pc = "returned" => r.last = "ok"
            /\ r.pc = "raised" => r.last \in {"error", "transient", "exhausted"}
            /\ (r.pc = "raised" /\ r.last # "error") => r.sent = max_retries)
    /\ (\E t \in Tasks : task[t].pc = "fetch_gather")
         ~> (\A t \in Tasks : task[t].pc # "fetch_gather")

\* C18 witness: a fetch has ended in which one request raised after
\* max_retries 429 responses, one raised after max_retries failures ending
\* in a network error, and one returned the response of its last attempt.
C18_Witness ==
    \E t \in Tasks :
        /\ task[t].pc = "done" /\ task[t].fetch.req # EmptyDict
        /\ \E a, b, c \in Categories :
              /\ task[t].fetch.req[a].pc = "raised"
              /\ task[t].fetch.req[a].last = "exhausted"
              /\ task[t].fetch.req[b].pc = "raised"
              /\ task[t].fetch.req[b].last = "transient"
              /\ task[t].fetch.req[c].pc = "returned"
              /\ task[t].fetch.req[c].sent = max_retries

\* C19: the waits of a _request_with_retry call are 1, 2, 4, ...: the i-th
\* wait (after the failed attempt i - 1) is 2^(i-1) seconds, after a 429 as
\* after a network error, and attempt k is sent after exactly k waits.
C19_BackoffSchedule ==
    \A r \in Requests :
        /\ \A i \in 1..Len(r.slept) : r.slept[i] = 2 ^ (i - 1)
        /\ r.pc = "request" => Len(r.slept) = r.attempt
        /\ r.pc = "sleep" => /\ Len(r.slept) = r.attempt + 1
                             /\ r.last \in {"429", "transient"}

\* C19 witness: one request is in its second wait after a 429 and another
\* in its second wait after a network error, both having slept 1 and 2.
C19_Witness ==
    \E r, q \in Requests :
        /\ r.pc = "sleep" /\ r.last = "429" /\ r.slept = <<1, 2>>
        /\ q.pc = "sleep" /\ q.last = "transient" /\ q.slept = <<1, 2>>

C21_WildcardIsUnion ==
    \A t \in Tasks :
        (task[t].op = "_group_sizes_by_region" /\ task[t].pc = "done")
        => LET regions == task[t].args[1]
               sizes == task[t].args[2]
               instance_types == task[t].ret.value
               keys == DOMAIN instance_types \ {"*"}
               all == instance_types["*"]
           IN  /\ "*" \in DOMAIN instance_types
               /\ keys \subseteq Elems(regions)
               /\ \A region \in keys :
                     Elems(instance_types[region]) =
                        {sizes[i].slug : i \in {j \in 1..Len(sizes) :
                                                  region \in Elems(sizes[j].regions)}}
               /\ \A i \in 1..(Len(all) - 1) : Rank(all[i]) < Rank(all[i + 1])
               /\ Elems(all) = UNION {Elems(instance_types[region]) : region \in keys}

\* C21: a reachable state in which _group_sizes_by_region has returned for
\* sizes of which one is offered only in a region that is not in the list
\* of regions.
C21_Witness ==
    \E t \in Tasks :
        /\ task[t].op = "_group_sizes_by_region" /\ task[t].pc = "done"
        /\ task[t].args[1] = <<"ams3", "nyc1">>
        /\ \E i \in 1..Len(task[t].args[2]) : task[t].args[2][i].regions = <<"syd1">>
        /\ \E i \in 1..Len(task[t].args[2]) : task[t].args[2][i].regions = <<"nyc1">>

\* A _build_provider_schema call that has returned
HasBuilt(t) == task[t].op = "_build_provider_schema" /\ task[t].pc = "done"

\* C22: conditional isolation. For resources in which several database
\* engines have at least one version, the provider's conditional rule holds
\* for every such engine E a version constraint that refers to E's version
\* enum under the guard that the database type is E, and holds no other
\* version constraint.
C22_ConditionalIsolation ==
    \A t \in Tasks :
        HasBuilt(t) =>
           LET provider_name == task[t].args[1]
               database_types == task[t].args[2].database_types
               versioned == {E \in DOMAIN database_types : database_types[E] # <<>>}
               conditional == task[t].ret.value.fragment.conditional
               Rule(E) ==
                   ("if" :> [properties |-> [type |-> [const |-> E]]])
                   @@ ("then" :> ("$ref" :> <<"#/definitions/", title(provider_name),
                                              title(E), "Versions">>))
           IN  Cardinality(versioned) >= 2 =>
                 LET rules == conditional["then"]["properties"]["infrastructure"]
                                ["properties"]["database"]["properties"]["version"]["anyOf"]
                 IN  /\ \A E \in versioned : \E i \in 1..Len(rules) : rules[i] = Rule(E)
                     /\ \A i \in 1..Len(rules) : \E E \in versioned : rules[i] = Rule(E)

\* C22: a reachable state in which the fragment of digitalocean has been
\* built from resources with three engines that all have versions.
C22_Witness ==
    \E t \in Tasks :
        /\ HasBuilt(t)
        /\ task[t].args = <<"digitalocean", get_static_fallback>>

\* C23: the definitions of a fragment follow the resources: the regions
\* enum is there iff regions is non-empty and lists the regions in their
\* order; the instance-types enum is there iff some key of instance_types
\* has a type, and is the sorted, duplicate-free union over all keys; each
\* engine has its version enum iff it has a version; the cluster-versions
\* enum is there iff kubernetes_versions is given and non-empty; and the
\* fragment defines nothing else.
C23_DefinitionsFollowResources ==
    \A t \in Tasks :
        HasBuilt(t) =>
           LET T == title(task[t].args[1])
               resources == task[t].args[2]
               definitions == task[t].ret.value.fragment.definitions
               union == UNION {Elems(resources.instance_types[k]) :
                                  k \in DOMAIN resources.instance_types}
               regions == <<T, "Regions">>
               types == <<T, "InstanceTypes">>
               kubernetes == <<T, "KubernetesVersions">>
               versions(E) == <<T, title(E), "Versions">>
               engines == DOMAIN resources.database_types
           IN  /\ regions \in DOMAIN definitions <=> resources.regions # <<>>
               /\ regions \in DOMAIN definitions =>
                     definitions[regions].enum = resources.regions
               /\ types \in DOMAIN definitions <=> union # {}
               /\ types \in DOMAIN definitions =>
                     LET enum == definitions[types].enum
                     IN  /\ Elems(enum) = union
                         /\ \A i \in 1..(Len(enum) - 1) : Rank(enum[i]) < Rank(enum[i + 1])
               /\ \A E \in engines :
                     /\ versions(E) \in DOMAIN definitions <=> resources.database_types[E] # <<>>
                     /\ versions(E) \in DOMAIN definitions =>
                           definitions[versions(E)].enum = resources.database_types[E]
               /\ kubernetes \in DOMAIN definitions <=>
                     (resources.kubernetes_versions # None
                      /\ resources.kubernetes_versions[1] # <<>>)
               /\ kubernetes \in DOMAIN definitions =>
                     definitions[kubernetes].enum = resources.kubernetes_versions[1]
               /\ DOMAIN definitions \subseteq
                     {regions, types, kubernetes} \cup {versions(E) : E \in engines}
               /\ \A d \in DOMAIN definitions : definitions[d].type = "string"

\* C23 witness: a fragment has been built from resources without regions,
\* whose instance types are listed unsorted under two region keys and under
\* no wildcard, with one engine that has versions and one that has none,
\* and with an empty list of cluster versions.
C23_Witness ==
    \E t \in Tasks :
        /\ HasBuilt(t)
        /\ task[t].args[2].regions = <<>>
        /\ DOMAIN task[t].args[2].instance_types = {"ams3", "nyc1"}
        /\ task[t].args[2].database_types = ("postgres" :> <<"16">>) @@ ("mysql" :> <<>>)
        /\ task[t].args[2].kubernetes_versions = Some(<<>>)
        /\ DOMAIN task[t].ret.value.fragment.definitions =
              {<<"Hetzner", "InstanceTypes">>, <<"Hetzner", "Postgres", "Versions">>}

\* C24: merge. While generate_schema runs, a provider that is resolved is
\* the next of the requested names and is put behind the providers resolved
\* before it. The document it returns carries every top-level key of the
\* base schema unchanged, has as definitions exactly the definitions of all
\* the fragments (each name with the definition its fragment gives it), and
\* the rules under allOf are the conditional rules of the resolved
\* providers, one for each, in the order of the request.
C24_MergeKeepsAll ==
    [][\A t \in Tasks :
         LET g == task[t].gen
             h == task'[t].gen
             fragment(p) == _build_provider_schema(p, g.provider_schemas[p])
             document == task'[t].schema
             rules == IF "allOf" \in DOMAIN document THEN document["allOf"] ELSE <<>>
         IN  /\ (g.active /\ h.order # g.order)
                => /\ h.order = Append(g.order, task[t].provider)
                   /\ task[t].provider = Head(g.providers)
                   /\ h.providers = Tail(g.providers)
             /\ (g.active /\ task'[t].pc = "done" /\ task'[t].ret = RetSchema)
                => /\ \A k \in DOMAIN base_schema \ {"definitions", "allOf"} :
                         k \in DOMAIN document /\ document[k] = base_schema[k]
                   /\ DOMAIN document \subseteq DOMAIN base_schema \cup {"definitions", "allOf"}
                   /\ DOMAIN document["definitions"] =
                         UNION {DOMAIN fragment(p).definitions : p \in DOMAIN g.provider_schemas}
                   /\ \A p \in DOMAIN g.provider_schemas :
                         \A d \in DOMAIN fragment(p).definitions :
                            document["definitions"][d] = fragment(p).definitions[d]
                   /\ Len(rules) = Cardinality(DOMAIN g.provider_schemas)
                   /\ Len(rules) = Len(g.order)
                   /\ \A i \in 1..Len(rules) : rules[i] = fragment(g.order[i]).conditional
      ]_vars

\* C24 witness: generate_schema has returned the document for the request
\* hetzner, digitalocean, with hetzner resolved by a fetch and digitalocean
\* from the cache: two rules in this order and the definitions of both.
C24_Witness ==
    \E t \in Tasks :
        /\ task[t].pc = "done" /\ task[t].ret = RetSchema
        /\ task[t].gen.order = <<"hetzner", "digitalocean">>
        /\ task[t].gen.provider_schemas["hetzner"] = LiveB
        /\ task[t].gen.cached = "hit"
        /\ Len(task[t].schema["allOf"]) = 2
        /\ <<"Hetzner", "Regions">> \in DOMAIN task[t].schema["definitions"]
        /\ <<"Digitalocean", "Regions">> \in DOMAIN task[t].schema["definitions"]

\* C25: determinism. When a fragment is built and merged for a provider and
\* then again for the same provider from resources that are equal to the
\* first ones, the second run returns what the first returned: the same
\* fragment, the same document and the same order of the definitions.
C25_Deterministic ==
    [][\A t \in Tasks :
         (/\ HasBuilt(t) /\ ops' = ops + 1
          /\ task'[t].op = "_build_provider_schema"
          /\ task'[t].args[1] = task[t].args[1]
          /\ Eq(task'[t].args[2], task[t].args[2]))
         => task'[t].ret.value = task[t].ret.value
      ]_vars

\* C25: a reachable state in which a fragment has been built a second time,
\* from resources whose database_types holds two engines with versions,
\* mysql before postgres.
C25_Witness ==
    \E t \in Tasks :
        /\ HasBuilt(t) /\ ops = 2
        /\ task[t].args[2].database_types =
              ("postgres" :> <<"16", "15">>) @@ ("mysql" :> <<"8.0">>)
        /\ Engines(task[t].args[2]) = <<"mysql", "postgres">>

\* C26: round trip. from_dict applied to the dict that to_dict made of an
\* instance r returns an instance equal to r, field by field.
C26_RoundTrip ==
    [][\A t \in Tasks :
         (task[t].op = "to_dict" /\ task[t].pc = "done"
          /\ task'[t].op = "from_dict")
         => /\ task'[t].args[1] = task[t].ret.value
            /\ task'[t].ret.value = task[t].args[1]
            /\ Eq(task'[t].ret.value, task[t].args[1])
      ]_vars

\* C26 witness: the all-empty instance, whose kubernetes_versions and
\* storage_types are absent, has come back from its dict.
C26_Witness ==
    \E t \in Tasks :
        /\ task[t].op = "from_dict" /\ task[t].pc = "done"
        /\ task[t].args[1] = to_dict(ProviderResources(<<>>, EmptyDict, EmptyDict, None, None))
        /\ task[t].ret.value = ProviderResources(<<>>, EmptyDict, EmptyDict, None, None)

\* C27: a write supersedes a stale entry. A get_cached_resources that has
\* read an entry older than its TTL returns absent. A cache_resources call
\* stamps its entry with the time of the call and, completing without an
\* I/O error, leaves the cache file holding exactly that entry, whatever was
\* there before; and once it has completed (without an I/O error), a
\* get_cached_resources for the same provider that follows it, nothing else
\* having touched the cache in between (the cache file still holds the entry
\* of that call), has read that entry, and returns the resources that were
\* written if the entry is not older than the TTL.
C27_WriteSupersedesStale ==
    [][\A t \in Tasks :
         /\ (/\ task[t].pc = "get_eval" /\ task'[t].pc = "done"
             /\ IsEntry(task[t].content, task[t].provider)
             /\ Age(task[t].content) > task[t].ttl_hours)
            => task'[t].ret = RetAbsent
         /\ (CanCall(t) /\ task'[t].op = "cache_resources" /\ ops' = ops + 1)
            => /\ task'[t].cache_data[1] = [k |-> "timestamp", v |-> now]
               /\ task'[t].cache_data[3].k = "resources"
         /\ (task[t].pc = "put_rename" /\ task'[t].pc = "done" /\ faults' = faults)
            => Target(task[t].provider)' = {task[t].cache_data}
         /\ \A u \in Tasks \ {t} :
              (/\ task[t].pc = "get_eval" /\ task'[t].pc = "done"
               /\ task[u].pc = "done" /\ task[u].op = "cache_resources"
               /\ task[u].provider = task[t].provider
               /\ Target(task[u].provider) = {task[u].cache_data}
               /\ faults = 0)
              => /\ task[t].content = task[u].cache_data
                 /\ Age(task[u].cache_data) <= task[t].ttl_hours
                    => /\ task'[t].ret.kind = "resources"
                       /\ to_dict(task'[t].ret.resources) = task[u].cache_data[3].v
                       /\ task'[t].ret.resources \in ResourceInputs
      ]_vars

\* C27 witness: hetzner's entry of time 0 was older than both TTLs when a
\* cache_resources call replaced it, and a get_cached_resources after it has
\* returned the resources of the new entry, which are not those of the old.
C27_Witness ==
    \E t, u \in Tasks :
        /\ task[u].pc = "done" /\ task[u].op = "cache_resources"
        /\ task[u].provider = "hetzner"
        /\ task[u].cache_data[1].v > DefaultTtlHours
        /\ task[t].pc = "done" /\ task[t].op = "get_cached_resources"
        /\ task[t].provider = "hetzner"
        /\ task[t].ret = RetResources(LiveB)
        /\ faults = 0

\* C28: fresh cache. In the first generate_schema call on an empty cache,
\* with use_cache and without force_refresh, a requested name that has a
\* client is not skipped: the cache read finds nothing and the provider goes
\* to a fetch; fetch_resources is called once for it, never twice; the
\* fragment is built from the fetched resources; and, unless the write met
\* an I/O error, the provider's cache file then holds an entry with exactly
\* these resources, which is still so for every resolved provider when the
\* call returns.
C28_FreshCacheFetchesOnce ==
    [][\A t \in Tasks :
         LET g == task[t].gen
             h == task'[t].gen
             p == task[t].provider
             Entry(q, r) == \E T \in 0..now : Target(q)' = {CacheData(T, q, r)}
         IN  (/\ g.active /\ ops = 1 /\ g.use_cache /\ ~g.force_refresh
              /\ task'[t] # task[t])
             => /\ (/\ task[t].pc = "gen_loop" /\ g.providers # <<>>
                     /\ Head(g.providers) \in g.api_clients)
                    => /\ task'[t].pc = "gen_fetch"
                       /\ task'[t].provider = Head(g.providers)
                       /\ h.cached = "absent" /\ h.fetched = 0
                /\ h.fetched <= 1
                /\ h.order # g.order
                    => /\ g.fetched = 1 /\ g.wrote = 1
                       /\ g.resources # NoResources
                       /\ h.provider_schemas[p] = g.resources
                       /\ faults = 0 => Entry(p, g.resources)
                /\ task'[t].pc = "done"
                    => /\ task'[t].ret = RetSchema
                       /\ faults = 0 =>
                             \A q \in DOMAIN g.provider_schemas :
                                Entry(q, g.provider_schemas[q])
      ]_vars

\* C28 witness: the first generate_schema call on the empty cache, with
\* use_cache and the token, has returned: digitalocean was fetched once, its
\* fragment holds the live regions and its cache file the fetched resources.
C28_Witness ==
    \E t \in Tasks :
        /\ task[t].pc = "done" /\ task[t].ret = RetSchema /\ ops = 1
        /\ task[t].gen.use_cache /\ ~task[t].gen.force_refresh
        /\ task[t].gen.order = <<"digitalocean">>
        /\ task[t].gen.fetched = 1
        /\ task[t].gen.provider_schemas["digitalocean"].regions = LiveRegions
        /\ \E d \in Target("digitalocean") :
              /\ IsEntry(d, "digitalocean")
              /\ Field(d, "resources") = to_dict(task[t].gen.provider_schemas["digitalocean"])
        /\ Target("hetzner") = Absent

\* C29: cleanup_old_cache(max_age_days) removes exactly the cache files
\* whose modification time is before now minus max_age_days and returns
\* their number. Neither the timestamp stored in an entry nor the TTL of the
\* reads counts; a cache file that is not removed keeps its content and its
\* modification time, and the temp files are left alone.
C29_PruneByMtime ==
    [][\A t \in Tasks :
         (CanCall(t) /\ task'[t].op = "cleanup_old_cache" /\ ops' = ops + 1)
         => LET max_age_days == task'[t].args[1]
                old == {p \in Providers :
                          /\ dir[<<p, "json">>] # 0
                          /\ inodes[dir[<<p, "json">>]].mtime < now - 24 * max_age_days}
            IN  /\ task'[t].pc = "done"
                /\ task'[t].ret = RetCount(Cardinality(old))
                /\ \A p \in old : dir'[<<p, "json">>] = 0
                /\ \A p \in Providers \ old :
                      /\ dir'[<<p, "json">>] = dir[<<p, "json">>]
                      /\ dir[<<p, "json">>] # 0 =>
                            inodes'[dir[<<p, "json">>]] = inodes[dir[<<p, "json">>]]
                /\ \A p \in Providers :
                      Stored(dir', inodes', <<p, "tmp">>) = Stored(dir, inodes, <<p, "tmp">>)
      ]_vars

\* C29 witness: with max_age_days = 0 at hour 4, cleanup_old_cache has
\* removed hetzner's file, last modified at hour 0, and has kept
\* digitalocean's, which was modified at hour 4 although the timestamp in
\* it is 0, older than the cutoff.
C29_Witness ==
    \E t \in Tasks :
        /\ task[t].op = "cleanup_old_cache" /\ task[t].pc = "done"
        /\ task[t].args = <<0>> /\ task[t].ret = RetCount(1)
        /\ now = TickHours
        /\ Target("hetzner") = Absent
        /\ \E d \in Target("digitalocean") :
              /\ IsEntry(d, "digitalocean")
              /\ Field(d, "timestamp") < now
              /\ inodes[dir[<<"digitalocean", "json">>]].mtime = now

\* C30: clear_cache(provider) removes that provider's cache file and no
\* other file, and returns 1 if the file existed and 0 if not;
\* clear_cache() removes every cache file and returns their number. A
\* get_cached_resources that is called while the provider has no cache file
\* returns absent at once; and a provider without a cache file gets one
\* again only by the rename of a cache_resources call.
C30_ClearRemovesOnlyTarget ==
    [][/\ \A t \in Tasks :
            (CanCall(t) /\ task'[t].op = "clear_cache" /\ ops' = ops + 1)
            => LET p == task'[t].provider
                   files == {q \in Providers : dir[<<q, "json">>] # 0}
               IN  /\ task'[t].pc = "done"
                   /\ p # "" =>
                         /\ task'[t].ret = RetCount(IF p \in files THEN 1 ELSE 0)
                         /\ \A q \in Providers \cap {p} : Target(q)' = Absent
                         /\ \A q \in Providers \ {p} :
                               /\ dir'[<<q, "json">>] = dir[<<q, "json">>]
                               /\ Target(q)' = Target(q)
                   /\ p = "" =>
                         /\ task'[t].ret = RetCount(Cardinality(files))
                         /\ \A q \in Providers : Target(q)' = Absent
                   /\ \A q \in Providers :
                         Stored(dir', inodes', <<q, "tmp">>) = Stored(dir, inodes, <<q, "tmp">>)
       /\ \A t \in Tasks :
            (/\ CanCall(t) /\ task'[t].op = "get_cached_resources" /\ ops' = ops + 1
             /\ Target(task'[t].provider) = Absent)
            => task'[t].pc = "done" /\ task'[t].ret = RetAbsent
       /\ \A p \in Providers :
            (Target(p) = Absent /\ Target(p)' # Absent)
            => \E u \in Tasks :
                  /\ task[u].pc = "put_rename" /\ task[u].provider = p
                  /\ task'[u].pc # "put_rename"
                  /\ Target(p)' = {task[u].cache_data}
      ]_vars

\* C30 witness: after clear_cache("hetzner") removed hetzner's file, the one
\* that is there in every initial state, and left digitalocean's in place,
\* a get_cached_resources for hetzner has returned absent.
C30_Witness ==
    \E t \in Tasks :
        /\ task[t].op = "get_cached_resources" /\ task[t].pc = "done"
        /\ task[t].provider = "hetzner" /\ task[t].ret = RetAbsent
        /\ Target("hetzner") = Absent
        /\ Target("digitalocean") # Absent
        /\ ops = 2 /\ crashes = 0 /\ now = 0

\* C39: no wasted backoff. When the request of the last permitted attempt of
\* _request_with_retry fails, with a 429 response or with a network error
\* or timeout, the call raises without sleeping first: no wait is added to
\* those slept, and a sleep is only begun when another request follows it.
C39_NoWastedBackoff ==
    [][\A t \in Tasks, c \in Categories :
         (/\ task[t].pc = "fetch_gather" /\ task'[t].pc = "fetch_gather"
          /\ task[t].fetch.req[c].pc = "request"
          /\ task'[t].fetch.req[c] # task[t].fetch.req[c])
         => LET r == task[t].fetch.req[c]
                r2 == task'[t].fetch.req[c]
            IN  /\ (r.attempt = max_retries - 1 /\ r2.last \in {"429", "transient"})
                   => r2.pc = "raised" /\ r2.slept = r.slept
                /\ r2.pc = "sleep" => ~range_ends(r.attempt + 1)
      ]_vars

\* C39 witness: the third and last request for the regions was answered
\* with 429 like the two before it; the call slept 1, 2 and then 4 seconds
\* and raised only after the third sleep, with no request following it.
C39_Witness ==
    \E t \in Tasks :
        /\ task[t].pc = "fetch_gather"
        /\ task[t].fetch.req["regions"].pc = "raised"
        /\ task[t].fetch.req["regions"].last = "exhausted"
        /\ task[t].fetch.req["regions"].sent = max_retries
        /\ task[t].fetch.req["regions"].slept = <<1, 2, 4>>

\* C38: in the ProviderResources that fetch_resources returns, whichever of
\* the four requests failed, every key of instance_types is the wildcard "*"
\* or one of the returned regions.
C38_InstanceKeysAreRegions ==
    \A t \in Tasks :
        (/\ task[t].op = "fetch_resources" /\ task[t].pc = "done"
         /\ task[t].ret.kind = "resources")
        => DOMAIN task[t].ret.resources.instance_types
              \subseteq {"*"} \cup Elems(task[t].ret.resources.regions)

\* C38 witness: the request for the sizes failed and that for the regions
\* succeeded; the call has returned the live regions ams3 and nyc1 together
\* with the instance_types of the static fallback, whose keys include nyc3.
C38_Witness ==
    \E t \in Tasks :
        /\ task[t].op = "fetch_resources" /\ task[t].pc = "done"
        /\ task[t].fetch.token
        /\ task[t].fetch.req["sizes"].pc = "raised"
        /\ task[t].fetch.req["regions"].pc = "returned"
        /\ task[t].ret.resources.regions = LiveRegions
        /\ "nyc3" \in DOMAIN task[t].ret.resources.instance_types
        /\ "nyc3" \notin Elems(task[t].ret.resources.regions)

\* The value under a key of a JSON object, the empty object if it has none
Sub(object, key) == IF key \in DOMAIN object THEN object[key] ELSE EmptyDict

\* The places of a conditional rule that can hold a reference
\* (generator.py:143-144,151-154,162-172): the region constraint, the size
\* constraint and the rules of the version constraint
RegionConstraint(conditional) == Sub(Sub(conditional["then"], "properties"), "region")
InfrastructureProps(conditional) ==
    Sub(Sub(Sub(conditional["then"], "properties"), "infrastructure"), "properties")
SizeConstraint(conditional) == Sub(InfrastructureProps(conditional), "size")
VersionRules(conditional) ==
    LET version == Sub(Sub(Sub(InfrastructureProps(conditional), "database"),
                           "properties"), "version")
    IN  IF "anyOf" \in DOMAIN version THEN Elems(version["anyOf"]) ELSE {}

\* The names of the definitions a conditional rule refers to
Referenced_(constraints) ==
    {Tail(c["$ref"]) : c \in {x \in constraints : "$ref" \in DOMAIN x}}
ConditionalRefs(conditional) ==
    Referenced_({RegionConstraint(conditional), SizeConstraint(conditional)}
                \cup {rule["then"] : rule \in VersionRules(conditional)})

\* C37: no dangling references. Every "$ref" in the conditional rule of a
\* fragment names a definition of that fragment; the region constraint is
\* there exactly when the regions enum is defined, the size constraint
\* exactly when the instance-types enum is defined, and for every engine
\* the version constraint that refers to the engine's version enum is there
\* exactly when that enum is defined.
C37_NoDanglingReferences ==
    \A t \in Tasks :
        HasBuilt(t) =>
           LET T == title(task[t].args[1])
               resources == task[t].args[2]
               definitions == task[t].ret.value.fragment.definitions
               conditional == task[t].ret.value.fragment.conditional
               refs == ConditionalRefs(conditional)
           IN  /\ refs \subseteq DOMAIN definitions
               /\ RegionConstraint(conditional) # EmptyDict
                     <=> <<T, "Regions">> \in DOMAIN definitions
               /\ SizeConstraint(conditional) # EmptyDict
                     <=> <<T, "InstanceTypes">> \in DOMAIN definitions
               /\ \A E \in DOMAIN resources.database_types :
                     <<T, title(E), "Versions">> \in refs
                        <=> <<T, title(E), "Versions">> \in DOMAIN definitions

\* C37 witness: the fragment of digitalocean has been built from resources
\* in which postgres and mysql both have versions: both version enums are
\* defined, and the conditional rule refers to one of them only.
C37_Witness ==
    \E t \in Tasks :
        /\ HasBuilt(t)
        /\ task[t].args[1] = "digitalocean"
        /\ task[t].args[2].database_types =
              ("postgres" :> <<"16", "15">>) @@ ("mysql" :> <<"8.0">>)
        /\ {<<"Digitalocean", "Postgres", "Versions">>,
            <<"Digitalocean", "Mysql", "Versions">>}
              \subseteq DOMAIN task[t].ret.value.fragment.definitions
        /\ Cardinality(ConditionalRefs(task[t].ret.value.fragment.conditional)
                       \cap {<<"Digitalocean", "Postgres", "Versions">>,
                             <<"Digitalocean", "Mysql", "Versions">>}) = 1

\* C35: get_cached_resources raises no exception whatever the cache file
\* holds, and so neither does generate_schema with use_cache: a read of a
\* document that is no JSON, that is JSON and no object, that lacks a
\* field, whose timestamp is no string or whose resources value is no
\* object is a miss: the call on its own returns absent, and the generator
\* goes on to fetch the provider.
C35_InvalidContentIsMiss ==
    [][\A t \in Tasks :
         (/\ task[t].pc = "get_eval" /\ task'[t].pc # "get_eval"
          /\ {task[t].content} \in ReadDocs(task[t].provider)
          /\ ~IsEntry(task[t].content, task[t].provider))
         => /\ task'[t].ret.kind # "raised"
            /\ IF task[t].gen.active
               THEN task'[t].pc = "gen_fetch" /\ task'[t].gen.cached = "absent"
               ELSE task'[t].ret = RetAbsent
      ]_vars

\* C35 witness: generate_schema, called with use_cache, has ended with an
\* exception on a cache file whose resources value is a JSON list.
C35_Witness ==
    \E t \in Tasks :
        /\ task[t].op = "generate_schema" /\ task[t].pc = "done"
        /\ task[t].gen.use_cache /\ ~task[t].gen.force_refresh
        /\ task[t].ret = RetRaised
        /\ task[t].gen.fetched = 0
        /\ Target("digitalocean") = {ResourcesNotObject("digitalocean")}

\* C33: only live data is persisted. Starting from an empty cache, a
\* cache_resources call of the generator is made only with the credential
\* present and never with the static fallback as resources, the cache file
\* never holds the static fallback, and a generate_schema call that has the
\* credential and reads the cache is never served the static fallback as a
\* hit.
C33_OnlyLiveDataPersisted ==
    /\ \A t \in Tasks :
          (task[t].gen.active /\ Writing(t))
          => /\ task[t].gen.token
             /\ task[t].cache_data[3].v # to_dict(get_static_fallback)
    /\ \A d \in Target("digitalocean") :
          IsEntry(d, "digitalocean") => Field(d, "resources") # to_dict(get_static_fallback)
    /\ \A t \in Tasks :
          (/\ task[t].op = "generate_schema" /\ task[t].gen.token
           /\ task[t].gen.cached = "hit")
          => task[t].gen.provider_schemas["digitalocean"] # get_static_fallback

\* C33 witness: on an empty cache a first generate_schema call without the
\* credential wrote the static fallback to the cache; a second call, with
\* the credential and use_cache, has returned a schema built from that
\* entry as a cache hit, without fetching.
C33_Witness ==
    \E t \in Tasks :
        /\ task[t].op = "generate_schema" /\ task[t].pc = "done" /\ ops = 2
        /\ task[t].ret = RetSchema
        /\ task[t].gen.token /\ task[t].gen.use_cache /\ ~task[t].gen.force_refresh
        /\ task[t].gen.cached = "hit" /\ task[t].gen.fetched = 0
        /\ task[t].gen.provider_schemas["digitalocean"] = get_static_fallback
        /\ \E d \in Target("digitalocean") :
              Field(d, "resources") = to_dict(get_static_fallback)

\* C34: a failed refresh does not destroy good data. While digitalocean's
\* cache file holds a valid entry with live data, no step of a
\* generate_schema call with force_refresh whose fetch failed on every
\* endpoint changes the file: the entry keeps its resources and its
\* timestamp.
C34_FailedRefreshKeepsEntry ==
    [][\A t \in Tasks :
         (/\ task[t].gen.active /\ task'[t] # task[t]
          /\ task[t].gen.force_refresh /\ task[t].gen.token
          /\ task[t].provider = "digitalocean"
          /\ task[t].gen.fetched = 1
          /\ task[t].gen.resources = fetch_resources(TRUE, Categories)
          /\ \E d \in Target("digitalocean") :
                /\ IsEntry(d, "digitalocean")
                /\ Field(d, "resources") # to_dict(get_static_fallback))
         => Target("digitalocean")' = Target("digitalocean")
      ]_vars

\* C34 witness: the cache held the live entry of time 0; one
\* generate_schema call with force_refresh and the credential, whose
\* requests all failed, has returned, and the cache file now holds the
\* static fallback under the time of the call.
C34_Witness ==
    \E t \in Tasks :
        /\ task[t].op = "generate_schema" /\ task[t].pc = "done" /\ ops = 1
        /\ task[t].gen.force_refresh /\ task[t].gen.token
        /\ task[t].gen.fetched = 1
        /\ now = TickHours
        /\ Target("digitalocean") =
              {CacheData(TickHours, "digitalocean", get_static_fallback)}

\* C32: cache-entry invariant. In every state that reads, writes, clears,
\* prunes and crashes lead to from a store of written entries, a cache file
\* that is present and parses as JSON is a complete entry: it holds a
\* timestamp that is not later than the current time, the name of the
\* provider it is filed under, and a resources document with the five
\* fields of ProviderResources, as to_dict makes it from resources that
\* were given to cache_resources.
C32_CacheEntryInvariant ==
    \A p \in Providers :
        \A d \in Target(p) :
            IsJson(d) =>
               /\ IsEntry(d, p)
               /\ Field(d, "timestamp") <= now
               /\ Field(d, "provider") = p
               /\ DOMAIN Field(d, "resources") = ResourceKeys
               /\ \E r \in ResourceInputs : Field(d, "resources") = to_dict(r)

\* C32 witness: after a crash that left a partly written temp file of the
\* other provider behind, a cache_resources call made at a later time has
\* completed: the cache file of its provider holds the entry of that time.
C32_Witness ==
    \E t \in Tasks :
        /\ task[t].op = "cache_resources" /\ task[t].pc = "done"
        /\ crashes = 1 /\ faults = 0 /\ now = TickHours
        /\ Target(task[t].provider) =
              {CacheData(TickHours, task[t].provider, LiveB)}
        /\ \E q \in Providers \ {task[t].provider} :
              /\ exists(TempFile(q))
              /\ \A d \in Stored(dir, inodes, TempFile(q)) : ~IsJson(d)

(***************************************************************************)
(* Several processes over one cache directory.  Every process has its own  *)
(* SchemaCache (generator.py:15-17), and with it its own _locks dict       *)
(* (cache.py:25); the files are shared.  Coroutine slot t stands for       *)
(* process t, which makes one cache_resources call at a time.              *)
(***************************************************************************)
\* cache.py:31-35 in process t: the lock of provider in that process's _locks
ProcessLock(t, provider) == _get_lock(provider) \o "@" \o ToString(t)

\* cache.py:63-76 in process t: cache_resources(provider, resources) up to
\* its first await
ProcPutCall(t, provider, resources) ==
    /\ Free(t) /\ ops < MaxOps
    /\ LET lock == ProcessLock(t, provider)
           call == [Idle EXCEPT !.op = "cache_resources", !.provider = provider,
                                !.cache_data = CacheData(now, provider, resources)]
       IN  IF ~Locked(lock)
           THEN SetTask(t, [call EXCEPT !.pc = "put_open"]) /\ locks' = Acquire(lock, t)
           ELSE SetTask(t, [call EXCEPT !.pc = "put_wait"]) /\ locks' = locks
    /\ ops' = ops + 1
    /\ UNCHANGED <<now, dir, inodes, crashes, faults>>

\* cache.py:85-88 in process t: temp_file.replace(cache_file); a missing
\* temp file is an OSError, which is printed; the lock is released
ProcPutRename(t) ==
    /\ task[t].pc = "put_rename"
    /\ LET cache_file == _get_cache_file(task[t].provider)
           temp_file == with_suffix_tmp(cache_file)
       IN  /\ dir' = IF exists(temp_file) /\ temp_file # cache_file
                     THEN [dir EXCEPT ![cache_file] = dir[temp_file], ![temp_file] = 0]
                     ELSE dir
           /\ SetTask(t, PutReturn(task[t], RetDone))
           /\ inodes' = Collect(dir', task', inodes)
    /\ locks' = Release(ProcessLock(t, task[t].provider))
    /\ UNCHANGED <<now, ops, crashes, faults>>

\* cache.py:87-88 in process t: open, write or rename fails with an OSError
ProcPutFault(t) ==
    /\ task[t].pc \in {"put_open", "put_write", "put_rename"}
    /\ faults < MaxFaults
    /\ faults' = faults + 1
    /\ SetTask(t, PutReturn(task[t], RetDone))
    /\ inodes' = Collect(dir, task', inodes)
    /\ locks' = Release(ProcessLock(t, task[t].provider))
    /\ UNCHANGED <<now, dir, ops, crashes>>

ProcNext ==
    \/ \E t \in Tasks, p \in Providers, r \in ResourceInputs : ProcPutCall(t, p, r)
    \/ \E t \in Tasks : PutOpen(t)
    \/ \E t \in Tasks : PutWrite(t)
    \/ \E t \in Tasks : ProcPutRename(t)
    \/ \E t \in Tasks : ProcPutFault(t)
    \/ Tick

ProcSpec == StoreInit /\ [][ProcNext]_vars

\* The positions of a generate_schema call inside the scope of the client
\* (generator.py:68-74)
InScope(rec) ==
    rec.pc \in {"gen_fetching", "put_wait", "put_open", "put_write", "put_rename",
                "gen_exit"}

\* C31: connection lifecycle. A generate_schema call starts with no HTTP
\* client; the client comes into being only in the step in which
\* fetch_resources sends its first request, and it does so whenever requests
\* are sent, also when it was closed before; every way out of the scope of
\* the client (the resources returned, an exception of the fetch, an error
\* or exception of the cache write) leaves it closed, so that outside the
\* scope, and when generate_schema has returned, it is closed; and closing
\* a client that was never opened or is closed already changes nothing.
C31_ConnectionLifecycle ==
    [][\A t \in Tasks :
         LET rec == task[t]
             rec2 == task'[t]
         IN  /\ (CanCall(t) /\ ops' = ops + 1 /\ rec2.op = "generate_schema")
                => ~rec2.gen.client
             /\ (~rec.gen.client /\ rec2.gen.client)
                => /\ rec.pc = "gen_fetch" /\ rec2.pc = "gen_fetching"
                   /\ rec.gen.token \/ rec.provider # "digitalocean"
             /\ (/\ rec.pc = "gen_fetch" /\ rec2.pc = "gen_fetching"
                 /\ rec.gen.token \/ rec.provider # "digitalocean")
                => rec2.gen.client
             /\ (InScope(rec) /\ ~InScope(rec2)) => ~rec2.gen.client
             /\ (rec2.op = "generate_schema" /\ ~InScope(rec2)) => ~rec2.gen.client
             /\ (InScope(rec) /\ ~InScope(rec2) /\ ~rec.gen.client)
                => rec2.pc = "gen_loop" /\ ~rec2.gen.client
      ]_vars

\* C31 witness: a first generate_schema call opened the client, fetched
\* live data, wrote it to the empty cache and closed the client; a second
\* call on the same generator is sending its requests, and the client is
\* open again.
C31_Witness ==
    \E t \in Tasks :
        /\ task[t].op = "generate_schema" /\ task[t].pc = "gen_fetching" /\ ops = 2
        /\ task[t].provider = "digitalocean"
        /\ task[t].gen.token /\ task[t].gen.client
        /\ \E d \in Target("digitalocean") :
              /\ IsEntry(d, "digitalocean")
              /\ Field(d, "resources") = to_dict(fetch_resources(TRUE, {}))

\* C36: writers that do not share a lock table are still safe. When
\* processes with their own SchemaCache write the same provider's entry
\* over one cache directory, no step leaves the cache file truncated or
\* holding mixed content: whatever a step does (a rename in particular),
\* the cache file afterwards is absent or a completely written entry of
\* its provider.
C36_SeparateLockTablesSafe ==
    [][\A p \in Providers : \A d \in Target(p)' : IsEntry(d, p)]_vars

\* C36 witness: two processes are inside cache_resources for digitalocean
\* at the same time, each holding the lock of its own SchemaCache, and both
\* have opened the temp file.
C36_Witness ==
    \E t, u \in Tasks :
        /\ t # u
        /\ task[t].op = "cache_resources" /\ task[u].op = "cache_resources"
        /\ task[t].provider = "digitalocean" /\ task[u].provider = "digitalocean"
        /\ task[t].pc = "put_write" /\ task[u].pc \in {"put_write", "put_rename"}
        /\ locks[ProcessLock(t, "digitalocean")] = t
        /\ locks[ProcessLock(u, "digitalocean")] = u
        /\ task[t].cache_data # task[u].cache_data

\* C40: lock release and progress. A lock of the SchemaCache is held only
\* by a coroutine that is inside the locked block of get_cached_resources
\* or cache_resources for that provider, so every way out of the block (a
\* value returned, an expired entry, a parse error, a write error) has
\* released it and no completed operation holds a lock; a provider's lock,
\* once created, stays the same object: it is never dropped from the table
\* and it is never taken from its holder, only given up by the holder's
\* own step out of the block; and, with every ready coroutine eventually
\* run, every read or write that is pending (waiting for the lock or
\* holding it) eventually completes.
C40_LockReleaseAndProgress ==
    /\ [](\A p \in DOMAIN locks :
            locks[p] # 0 => Critical(locks[p]) /\ task[locks[p]].provider = p)
    /\ [][\A p \in DOMAIN locks :
            /\ p \in DOMAIN locks'
            /\ (locks[p] # 0 /\ locks'[p] # locks[p])
               => /\ locks'[p] = 0
                  /\ task'[locks[p]].pc = "done"
                  /\ \A u \in Tasks \ {locks[p]} : task'[u] = task[u]
            /\ (locks[p] # 0 /\ task'[locks[p]].pc = "done") => locks'[p] = 0]_vars
    /\ \A t \in Tasks :
          (task[t].pc \notin {"idle", "done"}) ~> (task[t].pc = "done")

\* C40 witness: a cache_resources call has ended with a write error while
\* a read of the same provider was waiting for the lock; the lock is free
\* again and the read is about to be given it.
C40_Witness ==
    \E t, u \in Tasks :
        /\ task[u].op = "cache_resources" /\ task[u].pc = "done" /\ faults = 1
        /\ task[u].provider = "digitalocean"
        /\ task[t].op = "get_cached_resources" /\ task[t].pc = "get_wait"
        /\ task[t].provider = "digitalocean"
        /\ locks["digitalocean"] = 0

TypeOK ==
    /\ now \in 0..MaxTime
    /\ dir \in [Paths -> 0..MaxInodes]
    /\ DOMAIN locks \subseteq Providers
    /\ \A p \in DOMAIN locks : locks[p] \in 0..NumTasks
    /\ \A t \in Tasks : task[t].f \in 0..MaxInodes

====
